---- MODULE Spec2Model ----
(***************************************************************************)
(* Model of the response-execution and self-repair pipeline of the agent   *)
(* (src/agent.py): Agent.process, the two batch executors, the four        *)
(* action executors over the filesystem and shell helpers (src/tools/fs.py *)
(* and src/local-ai-agent/tools/shell.py), and the two repair loops        *)
(* Agent._iterative_debug and Agent._debug_command.                        *)
(*                                                                         *)
(* Text is abstracted where the code only inspects part of it:             *)
(*  - a file content is the sequence of its lines; of a line the code      *)
(*    only uses its length, whether it is a markdown header, and (for the  *)
(*    substring tests of the repair loops) whether it carries a marker;    *)
(*  - a result string is a record whose tag names the f-string that built  *)
(*    it; prefix and substring tests are operators over the tag.           *)
(*                                                                         *)
(* Spec is main() with its read-eval loop and the two repair loops over a  *)
(* small range of answers; SpecMixed is main() with one request on the     *)
(* command line over the whole range of action records.                    *)
(***************************************************************************)
EXTENDS Naturals, Integers, Sequences, FiniteSets, TLC

VARIABLES
    fs,         \* the working directory: path -> content, or NoFile
    agents,     \* Agent objects, outermost first: mode, project_context, conversation_history
    stack,      \* call stack of the running request, innermost frame last
    outcome,    \* what the last top-level call returned or raised
    session,    \* the last repair session: state, iteration, max_iterations, reported
    requests,   \* number of top-level calls made so far
    spawned,    \* commands for which run_command started a process
    failing,    \* the shell's side: commands whose next execution exits non-zero
    rechecks,   \* commands re-executed by the repair loop after the last nested pass
    received    \* what the backend and parse_response last handed to process()

vars == <<fs, agents, stack, outcome, session, requests, spawned, failing, rechecks,
          received>>

(***************************************************************************)
(* Bounds of the model.                                                    *)
(***************************************************************************)
MaxRequests == 2

(***************************************************************************)
(* Program constants.                                                      *)
(***************************************************************************)
MODES == {"code", "design", "craft", "debug", "test"}
DefaultMaxIterations == 5
LargeContent == 5000
MaxChunkSize == 5000

(***************************************************************************)
(* Contents: a content is the sequence of its lines (joined by newlines).  *)
(***************************************************************************)
Line(t, n, h) == [txt |-> t, len |-> n, hdr |-> h]

\* the text "(check mark) Command succeeded" that _action_run emits (agent.py:1395)
SucceededMarker == "Command succeeded"

ContentX   == << Line("x", 1, FALSE) >>
ContentY   == << Line("y", 1, FALSE) >>
ContentOld == << Line("old", 3, FALSE) >>
ContentMark == << Line(SucceededMarker, 19, FALSE) >>
\* 5001 characters on the first line, then a second line
ContentBig == << Line("A..A", 5001, FALSE), Line("tail", 4, FALSE) >>

RECURSIVE SumLen(_)
SumLen(lines) ==
    IF lines = <<>> THEN 0 ELSE Head(lines).len + SumLen(Tail(lines))

\* len(content)
ContentLen(c) == IF c = <<>> THEN 0 ELSE SumLen(c) + (Len(c) - 1)

\* marker in content
ContentHas(c, marker) == \E i \in 1..Len(c) : c[i].txt = marker

\* the absence of a file: a value no content equals (no line has length -1)
NoFile == << [txt |-> "", len |-> -1, hdr |-> FALSE] >>
(***************************************************************************)
(* tools/progress.py: break_down_tasks.  A chunk is again a sequence of    *)
(* lines; the join of a list of lines is that list.                        *)
(***************************************************************************)
RECURSIVE BySections(_, _, _, _, _)
BySections(lines, i, tasks, current_section, current_size) ==
    IF i > Len(lines)
    THEN IF current_section # <<>> THEN Append(tasks, current_section) ELSE tasks
    ELSE LET line == lines[i] IN
         IF line.hdr
         THEN LET flush == current_section # <<>> /\ current_size > 0
                  t1 == IF flush THEN Append(tasks, current_section) ELSE tasks
                  c1 == IF flush THEN <<>> ELSE current_section
                  s1 == IF flush THEN 0 ELSE current_size
              IN  BySections(lines, i + 1, t1, Append(c1, line), s1 + line.len)
         ELSE LET c1 == Append(current_section, line)
                  s1 == current_size + line.len
              IN  IF s1 > MaxChunkSize
                  THEN BySections(lines, i + 1, Append(tasks, c1), <<>>, 0)
                  ELSE BySections(lines, i + 1, tasks, c1, s1)

RECURSIVE ByLines(_, _, _, _, _)
ByLines(lines, i, tasks, chunk, chunk_size) ==
    IF i > Len(lines)
    THEN IF chunk # <<>> THEN Append(tasks, chunk) ELSE tasks
    ELSE LET c1 == Append(chunk, lines[i])
             s1 == chunk_size + lines[i].len
         IN  IF s1 > MaxChunkSize
             THEN ByLines(lines, i + 1, Append(tasks, c1), <<>>, 0)
             ELSE ByLines(lines, i + 1, tasks, c1, s1)

break_down_tasks(content) ==
    IF ContentLen(content) < MaxChunkSize
    THEN << content >>
    ELSE LET t1 == BySections(content, 1, <<>>, <<>>, 0)
             t2 == IF t1 = <<>> \/ \E k \in 1..Len(t1) : ContentLen(t1[k]) > MaxChunkSize
                   THEN ByLines(content, 1, <<>>, <<>>, 0)
                   ELSE t1
         IN  IF t2 # <<>> THEN t2 ELSE << content >>

(***************************************************************************)
(* tools/fs.py over the modelled working directory.                        *)
(***************************************************************************)
BackupPath(p) == p \o ".backup"

\* Path.exists(): the empty target resolves to the working directory itself
Exists(f, p) == p = "" \/ f[p] # NoFile

\* backup_file: copy2 to path + ".backup"; ok = FALSE is copy2 raising OSError
backup_file(f, p, ok) ==
    IF ~Exists(f, p) THEN f
    ELSE IF ok THEN [f EXCEPT ![BackupPath(p)] = f[p]] ELSE f

\* write_file: io.backup is copy2 succeeding, io.write is open()/write() succeeding
write_file(f, p, content, create_backup, io) ==
    LET f1 == IF Exists(f, p) /\ create_backup THEN backup_file(f, p, io.backup) ELSE f
    IN  IF io.write
        THEN [fs |-> [f1 EXCEPT ![p] = content], ok |-> TRUE]
        ELSE [fs |-> f1, ok |-> FALSE]

\* delete_file: io.write is unlink() succeeding
delete_file(f, p, create_backup, io) ==
    IF ~Exists(f, p) THEN [fs |-> f, ok |-> FALSE]
    ELSE LET f1 == IF create_backup THEN backup_file(f, p, io.backup) ELSE f
         IN  IF io.write
             THEN [fs |-> [f1 EXCEPT ![p] = NoFile], ok |-> TRUE]
             ELSE [fs |-> f1, ok |-> FALSE]

\* read_file: io.read = FALSE is open() raising PermissionError/UnicodeDecodeError
read_file(f, p, io) == IF Exists(f, p) /\ io.read THEN f[p] ELSE NoFile

\* load_project_context: the snapshot of every file of the directory
load_project_context(f) == [p \in {q \in DOMAIN f : f[q] # NoFile} |-> f[p]]

IOs == [backup : BOOLEAN, write : BOOLEAN, read : BOOLEAN]
(***************************************************************************)
(* tools/shell.py: the deny-list and run_command.  A command is a string;  *)
(* Chars gives its characters after lower().strip(), for the prefix test.  *)
(***************************************************************************)
CmdMake == "make"
CmdRm   == "rm -rf build"
CmdSudoReboot == "sudo reboot"
Commands == {CmdMake, CmdRm}

Chars(s) ==
    CASE s = ""             -> <<>>
      [] s = "make"         -> <<"m","a","k","e">>
      [] s = "rm -rf build" -> <<"r","m"," ","-","r","f"," ","b","u","i","l","d">>
      [] s = "sudo reboot"  -> <<"s","u","d","o"," ","r","e","b","o","o","t">>
      [] s = "rm"           -> <<"r","m">>
      [] s = "del"          -> <<"d","e","l">>
      [] s = "format"       -> <<"f","o","r","m","a","t">>
      [] s = "mkfs"         -> <<"m","k","f","s">>
      [] s = "dd"           -> <<"d","d">>
      [] s = "shutdown"     -> <<"s","h","u","t","d","o","w","n">>
      [] s = "reboot"       -> <<"r","e","b","o","o","t">>
      [] s = "sudo rm"      -> <<"s","u","d","o"," ","r","m">>
      [] s = "sudo del"     -> <<"s","u","d","o"," ","d","e","l">>
      [] s = "sudo format"  -> <<"s","u","d","o"," ","f","o","r","m","a","t">>
      [] s = "sudo mkfs"    -> <<"s","u","d","o"," ","m","k","f","s">>
      [] s = "create"       -> <<"c","r","e","a","t","e">>
      [] s = "edit"         -> <<"e","d","i","t">>
      [] s = "delete"       -> <<"d","e","l","e","t","e">>
      [] s = "run"          -> <<"r","u","n">>
      [] s = ".design"      -> <<".","d","e","s","i","g","n">>

DANGEROUS_COMMANDS ==
    {"rm", "del", "format", "mkfs", "dd", "shutdown", "reboot",
     "sudo rm", "sudo del", "sudo format", "sudo mkfs"}

\* str.startswith
StartsWith(s, prefix) ==
    /\ Len(prefix) <= Len(s)
    /\ SubSeq(s, 1, Len(prefix)) = prefix

is_dangerous_command(command) ==
    \E dangerous \in DANGEROUS_COMMANDS : StartsWith(Chars(command), Chars(dangerous))

\* Optional[int]: None is the empty sequence, a value n is << n >>
None == <<>>

\* run_command: a blocked command starts no process, and neither does one
\* shlex.split leaves without words (subprocess.run raises, caught at line
\* 76).  A started one exits non-zero exactly if it is one of fl, the
\* commands that fail at this moment.  hangs says that the started process
\* never exits: subprocess.run then raises TimeoutExpired after timeout
\* seconds, and does not return at all when timeout is None.
run_command(command, timeout, fl, hangs, sp) ==
    IF is_dangerous_command(command) \/ Chars(command) = <<>>
    THEN [returncode |-> 1, spawned |-> sp, started |-> FALSE, returned |-> TRUE]
    ELSE IF hangs
    THEN [returncode |-> 1, spawned |-> sp \cup {command}, started |-> TRUE,
          returned |-> timeout # None]
    ELSE [returncode |-> IF command \in fl THEN 1 ELSE 0,
          spawned |-> sp \cup {command}, started |-> TRUE, returned |-> TRUE]

\* the commands the shell would start
Runnable == {c \in Commands : ~is_dangerous_command(c)}
\* what may fail after the program changed a file or ran a command
Environments == SUBSET Runnable
\* how a started process may end: it exits and leaves env behind, or it never exits
Runs == {run \in [env : Environments, hangs : BOOLEAN] : run.hangs => run.env = {}}
(***************************************************************************)
(* Raw action records and their normalisation (agent.py:765-796).          *)
(***************************************************************************)
\* dict.get(key, ''): a missing key reads as the empty string
Get(action, key) == IF key \in DOMAIN action THEN action[key] ELSE ""

\* str.lower() and str.strip() on the strings of the model
Lower(t) ==
    CASE t = "Create"  -> "create"
      [] t = "YES"     -> "yes"
      [] t = "WRITE"   -> "write"
      [] t = "Update " -> "update "
      [] t = " Exec "  -> " exec "
      [] t = "Remove"  -> "remove"
      [] t = " Say"    -> " say"
      [] t = "Run"     -> "run"
      [] OTHER         -> t
Strip(t) ==
    CASE t = " a.py"   -> "a.py"
      [] t = "update " -> "update"
      [] t = " exec "  -> "exec"
      [] t = " say"    -> "say"
      [] t = " write"  -> "write"
      [] OTHER         -> t

\* the value a JSON null parses to.  The strings of the model are atoms;
\* this one stands for Python's None, which has no lower() and no strip()
PyNone == "None"
IsStr(v) == v # PyNone

\* a synonym table with an entry whose value is itself a synonym
variations_Chained ==
    [t \in {"createfile", "create_file", "write", "writefile",
            "editfile", "edit_file", "modify", "update",
            "deletefile", "delete_file", "remove",
            "execute", "exec", "command", "runcommand",
            "msg", "say", "tell"} |->
        CASE t \in {"createfile", "create_file", "write", "writefile"} -> "create"
          [] t = "modify"                                              -> "update"
          [] t \in {"editfile", "edit_file", "update"}                 -> "edit"
          [] t \in {"deletefile", "delete_file", "remove"}             -> "delete"
          [] t \in {"execute", "exec", "command", "runcommand"}        -> "run"
          [] t \in {"msg", "say", "tell"}                              -> "message"]

variations ==
    [t \in {"createfile", "create_file", "write", "writefile",
            "editfile", "edit_file", "modify", "update",
            "deletefile", "delete_file", "remove",
            "execute", "exec", "command", "runcommand",
            "msg", "say", "tell"} |->
        CASE t \in {"createfile", "create_file", "write", "writefile"} -> "create"
          [] t \in {"editfile", "edit_file", "modify", "update"}       -> "edit"
          [] t \in {"deletefile", "delete_file", "remove"}             -> "delete"
          [] t \in {"execute", "exec", "command", "runcommand"}        -> "run"
          [] t \in {"msg", "say", "tell"}                              -> "message"]

normalize_action_type(action_type) ==
    LET t == Strip(Lower(action_type))
    IN  IF t \in DOMAIN variations THEN variations[t] ELSE t

\* 'file' in action_type_raw or 'write' in action_type_raw, on the type strings
\* of the model that reach the final else branch
HintsAtFile(action_type_raw) == action_type_raw \in {"write_file", "newfile"}

\* str.endswith on the targets of the model
EndsWith(target, ext) ==
    CASE ext = ".design" -> target \in {"d.design"}
      [] ext = ".test"   -> target \in {"t.test"}
      [] OTHER           -> FALSE

\* target resolution of execute_actions (agent.py:794-795)
ResolveTarget(action) ==
    LET a == Get(action, "target")
        b == Get(action, "path")
        c == Get(action, "file_path")
        d == Get(action, "file")
    IN  Strip(IF a # "" THEN a ELSE IF b # "" THEN b ELSE IF c # "" THEN c ELSE d)

\* target resolution of execute_actions_with_progress (agent.py:897)
ResolveTargetProgress(action) == Strip(Get(action, "target"))

(***************************************************************************)
(* Result strings.  R(tag, arg) stands for the f-string named by tag.      *)
(***************************************************************************)
R(tag, arg) == [tag |-> tag, arg |-> arg]

\* result.startswith(cross mark)
StartsWithCross(r) ==
    r.tag \in {"edit_failed", "create_failed", "delete_failed", "delete_cancelled",
               "run_failed", "target_missing", "design_only"}

\* the results that report the action as done
Succeeded(r) == r.tag \in {"edited", "created", "deleted", "run_ok", "message"}

\* substring tests on the joined results of a nested pass
HasCommandSucceeded(results) ==
    \E i \in 1..Len(results) :
        \/ results[i].tag = "run_ok"
        \/ results[i].tag = "message" /\ ContentHas(results[i].arg, SucceededMarker)

(***************************************************************************)
(* The four action executors (agent.py:1325-1398).                         *)
(***************************************************************************)
\* _action_edit without its existence check
_action_edit_Unchecked(f, target, content, io) ==
    LET w == write_file(f, target, content, TRUE, io)
    IN  [fs |-> w.fs,
         result |-> IF w.ok THEN R("edited", target) ELSE R("edit_failed", target)]

_action_edit(f, target, content, io) ==
    IF ~Exists(f, target)
    THEN [fs |-> f, result |-> R("edit_missing", target)]
    ELSE IF read_file(f, target, io) = NoFile
    THEN [fs |-> f, result |-> R("edit_unreadable", target)]
    ELSE LET w == write_file(f, target, content, TRUE, io)
         IN  [fs |-> w.fs,
              result |-> IF w.ok THEN R("edited", target) ELSE R("edit_failed", target)]

_action_create(f, target, content, io) ==
    IF Exists(f, target)
    THEN [fs |-> f, result |-> R("create_exists", target)]
    ELSE LET w == write_file(f, target, content, FALSE, io)
         IN  [fs |-> w.fs,
              result |-> IF w.ok THEN R("created", target) ELSE R("create_failed", target)]

\* _action_delete proceeding on every answer that begins with "y"
_action_delete_AnyYes(f, target, answer, io) ==
    IF ~Exists(f, target)
    THEN [fs |-> f, result |-> R("delete_missing", target)]
    ELSE IF Strip(Lower(answer)) \in {"yes", "y"}
    THEN LET d == delete_file(f, target, TRUE, io)
         IN  [fs |-> d.fs,
              result |-> IF d.ok THEN R("deleted", target) ELSE R("delete_failed", target)]
    ELSE [fs |-> f, result |-> R("delete_cancelled", target)]

\* answer is what input() returns
_action_delete(f, target, answer, io) ==
    IF ~Exists(f, target)
    THEN [fs |-> f, result |-> R("delete_missing", target)]
    ELSE LET confirm == Strip(Lower(answer)) IN
         IF confirm = "yes"
         THEN LET d == delete_file(f, target, TRUE, io)
              IN  [fs |-> d.fs,
                   result |-> IF d.ok THEN R("deleted", target)
                              ELSE R("delete_failed", target)]
         ELSE [fs |-> f, result |-> R("delete_cancelled", target)]

\* env is what fails once the command has run; run_command is called
\* without a timeout (agent.py:1387)
_action_run(target, fl, env, hangs, sp) ==
    LET r == run_command(target, None, fl, hangs, sp)
    IN  [spawned |-> r.spawned,
         failing |-> IF r.started /\ r.returned THEN env ELSE fl,
         returned |-> r.returned,
         result |-> IF r.returncode = 0 THEN R("run_ok", target) ELSE R("run_failed", target)]

\* what the user types at the prompt of _action_delete
Confirmations == {"yes", "no", "YES", "y"}
Inputs == [io : IOs, confirm : Confirmations, env : Environments, hangs : BOOLEAN]

\* the inputs an action of the given kind reads; the others are held fixed
IOk == [backup |-> TRUE, write |-> TRUE, read |-> TRUE]
InputsFor(action_type) ==
    CASE action_type = "run"     ->
           {i \in Inputs : i.io = IOk /\ i.confirm = "no" /\ (i.hangs => i.env = {})}
      [] action_type = "delete"  -> {i \in Inputs : i.io.read /\ ~i.hangs}
      [] action_type = "edit"    -> {i \in Inputs : i.confirm = "no" /\ ~i.hangs}
      [] action_type = "message" ->
           {i \in Inputs : i.io = IOk /\ i.confirm = "no" /\ i.env = {} /\ ~i.hangs}
      [] OTHER ->
           {i \in Inputs : i.io.backup /\ i.io.read /\ i.confirm = "no" /\ ~i.hangs}
(***************************************************************************)
(* One iteration of the batch loops (agent.py:790-848 and 892-981).        *)
(* st = [fs, results, failed_commands, spawned, failing, waiting, answers]; *)
(* progress selects execute_actions_with_progress; waiting says that the   *)
(* iteration waits for a process that never exits; answers are the lines   *)
(* read from the user at the prompts of the batch.                         *)
(***************************************************************************)
GetContent(action) == IF "content" \in DOMAIN action THEN action.content ELSE <<>>

RECURSIVE ChunkLoop(_, _, _, _, _, _, _)
ChunkLoop(f, results, chunks, chunk_idx, action_type, target, io) ==
    IF chunk_idx > Len(chunks)
    THEN [fs |-> f, results |-> results]
    ELSE LET ty == IF chunk_idx > 1 /\ action_type = "create" THEN "edit" ELSE action_type
             r  == IF ty = "edit"
                   THEN _action_edit(f, target, chunks[chunk_idx], io)
                   ELSE _action_create(f, target, chunks[chunk_idx], io)
         IN  ChunkLoop(r.fs, Append(results, r.result), chunks, chunk_idx + 1, ty, target, io)

Dispatch(st, action_type_raw, action_type, target, content, inp) ==
    CASE action_type = "edit" ->
           LET r == _action_edit(st.fs, target, content, inp.io)
           IN  [st EXCEPT !.fs = r.fs, !.results = Append(@, r.result)]
      [] action_type = "create" ->
           LET r == _action_create(st.fs, target, content, inp.io)
           IN  [st EXCEPT !.fs = r.fs, !.results = Append(@, r.result)]
      [] action_type = "delete" ->
           LET r == _action_delete(st.fs, target, inp.confirm, inp.io)
           IN  [st EXCEPT !.fs = r.fs, !.results = Append(@, r.result),
                          !.answers = IF Exists(st.fs, target)
                                      THEN Append(@, inp.confirm) ELSE @]
      [] action_type = "run" ->
           LET r == _action_run(target, st.failing, inp.env, inp.hangs, st.spawned)
           IN  IF ~r.returned
               THEN [st EXCEPT !.spawned = r.spawned, !.waiting = TRUE]
               ELSE
               [st EXCEPT !.spawned = r.spawned,
                          !.failing = r.failing,
                          !.results = Append(@, r.result),
                          !.failed_commands =
                              IF StartsWithCross(r.result)
                              THEN Append(@, [command |-> target, purpose |-> content])
                              ELSE @]
      [] action_type = "message" ->
           [st EXCEPT !.results = Append(@, R("message", content))]
      [] OTHER ->
           LET unknown == st.results \o << R("unknown_type", action_type_raw),
                                           R("valid_types", "") >>
           IN  IF HintsAtFile(action_type_raw)
               THEN LET r == _action_create(st.fs, target, content, inp.io)
                    IN  [st EXCEPT !.fs = r.fs,
                                   !.results = unknown \o << R("hint_create", ""), r.result >>]
               ELSE [st EXCEPT !.results = unknown]

ExecuteOne(mode, progress, st, action, inp) ==
    LET action_type_raw == Lower(Get(action, "type"))
        action_type     == normalize_action_type(action_type_raw)
        target  == IF progress THEN ResolveTargetProgress(action) ELSE ResolveTarget(action)
        content == GetContent(action)
    IN  IF action_type \in {"edit", "create", "delete"} /\ target = ""
        THEN [st EXCEPT !.results = @ \o << R("target_missing", action_type),
                                             R("action_data", action) >>]
        ELSE IF mode = "design" /\ action_type \in {"create", "edit"}
                /\ ~EndsWith(target, ".design")
        THEN [st EXCEPT !.results = @ \o << R("design_only", target),
                                             R("design_hint", "") >>]
        ELSE IF progress /\ action_type \in {"create", "edit"}
                /\ ContentLen(content) > LargeContent
        THEN LET c == ChunkLoop(st.fs, st.results, break_down_tasks(content), 1,
                                action_type, target, inp.io)
             IN  [st EXCEPT !.fs = c.fs, !.results = c.results]
        ELSE Dispatch(st, action_type_raw, action_type, target, content, inp)

\* the condition under which a batch hands over to _iterative_debug
\* (agent.py:851 and 984)
AutoRepairModes == {"craft", "code"}

\* the hand-over without the mode guards
EntersRepair_AnyMode(mode, auto_debug, failed_commands) == failed_commands # <<>>

\* the hand-over without the test for failed commands
EntersRepair_AnyBatch(mode, auto_debug, failed_commands) ==
    auto_debug /\ mode \in AutoRepairModes

EntersRepair(mode, auto_debug, failed_commands) ==
    failed_commands # <<>> /\ auto_debug /\ mode \in AutoRepairModes
(***************************************************************************)
(* Inputs of the model: files, raw actions and backend responses.          *)
(***************************************************************************)
FileTargets == {"a.py", "d.design", "t.test"}
Paths == FileTargets \cup {BackupPath(t) : t \in FileTargets}

A(ty, target, content) == [type |-> ty, target |-> target, content |-> content]

TopActions ==
    { A("run", CmdMake, ContentX),
      A("create", "a.py", ContentX),
      A("create", "a.py", ContentBig),
      A("edit", "a.py", ContentY),
      A("edit", "a.py", ContentBig),
      A("message", "", ContentX) }

NestedActions ==
    { A("run", CmdMake, ContentX),
      A("create", "a.py", ContentY),
      A("message", "", ContentMark) }

BatchesOver(U) == {<<a>> : a \in U} \cup {<<a, b>> : a \in U, b \in U}

\* what run_ollama and parse_response hand to process(): a failing backend,
\* an unparsable answer (parsed = FALSE), or a parsed actions list
Response(rc, parsed, actions) == [returncode |-> rc, parsed |-> parsed, actions |-> actions]

ResponsesOver(U) ==
    { Response(1, FALSE, <<>>), Response(0, FALSE, <<>>), Response(0, TRUE, <<>>) }
    \cup { Response(0, TRUE, b) : b \in BatchesOver(U) }

\* nothing received yet
NoResponse == Response(0, FALSE, <<>>)

\* the outermost agent answers from TopActions, a debug agent from NestedActions
ResponsesFor(depth) == IF depth = 1 THEN ResponsesOver(TopActions) ELSE ResponsesOver(NestedActions)

(***************************************************************************)
(* Agents, frames and the call stack.                                      *)
(***************************************************************************)
Agent(mode, f, history) ==
    [mode |-> mode, project_context |-> load_project_context(f),
     conversation_history |-> history]

ProcessFrame(agent) ==
    [fn |-> "process", agent |-> agent, pos |-> "start", progress |-> FALSE,
     actions |-> <<>>, i |-> 1, results |-> <<>>, failed_commands |-> <<>>,
     answers |-> <<>>]

IterativeDebugFrame(agent, failed_commands, max_iterations) ==
    [fn |-> "iterative_debug", agent |-> agent, pos |-> "loop",
     failed_commands |-> failed_commands, iteration |-> 0,
     max_iterations |-> max_iterations, all_fixed |-> FALSE, debug_result |-> <<>>]

DebugCommandFrame(agent, command, max_iterations) ==
    [fn |-> "debug_command", agent |-> agent, pos |-> "loop", command |-> command,
     iteration |-> 0, max_iterations |-> max_iterations, files_before |-> {},
     debug_result |-> <<>>]

Top == stack[Len(stack)]
Running(fn) == stack # <<>> /\ Top.fn = fn

\* the record of a repair session: which loop, where it stands, the commands
\* it was started for, the files present when its last nested pass began, and
\* what its summary reported
NewSession(fn, commands, max_iterations, f) ==
    [fn |-> fn, state |-> "Repairing", iteration |-> 0,
     max_iterations |-> max_iterations, commands |-> commands,
     files |-> DOMAIN load_project_context(f),
     reported_state |-> "None", reported_iterations |-> 0]

NoSession == [NewSession("none", {}, 0, [p \in {} |-> NoFile]) EXCEPT !.state = "None"]

CommandsOf(failed_commands) ==
    {failed_commands[k].command : k \in 1..Len(failed_commands)}

\* a callee hands value back to the frame below it, or to main()
ReturnTo(stk, value) ==
    IF stk = <<>>
    THEN [stack |-> <<>>, outcome |-> [kind |-> "returned", value |-> value]]
    ELSE [stack |-> [stk EXCEPT ![Len(stk)] =
                        [@ EXCEPT !.debug_result = value, !.pos = "after_nested"]],
          outcome |-> outcome]

Init ==
    /\ fs \in { [p \in Paths |-> NoFile],
                 [p \in Paths |-> IF p = "a.py" THEN ContentOld ELSE NoFile] }
    /\ \E m \in MODES : agents = << Agent(m, fs, 0) >>
    /\ stack = <<>>
    /\ outcome = [kind |-> "none", value |-> <<>>]
    /\ session = NoSession
    /\ requests = 0
    /\ spawned = {}
    /\ failing \in Environments
    /\ rechecks = {}
    /\ received = NoResponse
(***************************************************************************)
(* main(): one request in every mode, a read-eval loop in code mode.       *)
(***************************************************************************)
RequestLimit == IF agents[1].mode = "code" THEN MaxRequests ELSE 1

MainProcess ==
    /\ stack = <<>>
    /\ outcome.kind # "raised"
    /\ requests < RequestLimit
    /\ requests' = requests + 1
    /\ stack' = << ProcessFrame(1) >>
    /\ outcome' = [kind |-> "none", value |-> <<>>]
    /\ session' = NoSession
    /\ rechecks' = {}
    /\ received' = NoResponse
    /\ UNCHANGED <<fs, agents, spawned, failing>>

(***************************************************************************)
(* Agent.process up to the call of an executor (agent.py:1400-1512).       *)
(***************************************************************************)
RequiredExtension(mode) ==
    CASE mode = "design" -> ".design" [] mode = "test" -> ".test" [] OTHER -> ""

\* the filter of design and test mode (agent.py:1429-1440 and 1457-1468)
PassesModeFilter(mode, action) ==
    \/ Lower(Get(action, "type")) = "message"
    \/ EndsWith(ResolveTarget(action), RequiredExtension(mode))

FilterActions(mode, actions) ==
    IF mode \in {"design", "test"}
    THEN SelectSeq(actions, LAMBDA a : PassesModeFilter(mode, a))
    ELSE actions

UsesProgress(actions) ==
    \/ Len(actions) > 1
    \/ \E k \in 1..Len(actions) : ContentLen(GetContent(actions[k])) > LargeContent

Pop(stk) == SubSeq(stk, 1, Len(stk) - 1)

\* the rejected actions, of which only the first is named
RejectedActions_FirstOnly(mode, actions) ==
    LET rejected == SelectSeq(actions, LAMBDA a : ~PassesModeFilter(mode, a))
    IN  [k \in 1..(IF rejected = <<>> THEN 0 ELSE 1) |->
            [type |-> Lower(Get(rejected[k], "type")), target |-> ResolveTarget(rejected[k])]]

\* the names of the rejected actions (agent.py:1440 and 1468)
RejectedActions(mode, actions) ==
    LET rejected == SelectSeq(actions, LAMBDA a : ~PassesModeFilter(mode, a))
    IN  [k \in 1..Len(rejected) |->
            [type |-> Lower(Get(rejected[k], "type")), target |-> ResolveTarget(rejected[k])]]

\* action.get('type', '').lower() in the mode filters (agent.py:1429, 1457)
\* and in generate_todo_list (progress.py:165), which process() calls on the
\* filtered list before either executor: a type that is not a string raises
\* AttributeError, and nothing up to main() catches it
RaisesOnType(actions) == \E k \in 1..Len(actions) : ~IsStr(Get(actions[k], "type"))

\* process() from the backend's answer to the choice of the executor, for an
\* answer out of responses
ProcessRespondFrom(responses) ==
    /\ Running("process")
    /\ Top.pos = "start"
    /\ \E resp \in responses :
         LET mode     == agents[Top.agent].mode
             filtered == FilterActions(mode, resp.actions)
             early    == IF resp.returncode # 0 THEN << R("ollama_error", "") >>
                         ELSE IF ~resp.parsed THEN << R("parse_error", "") >>
                         ELSE IF resp.actions = <<>> THEN << R("no_actions", "") >>
                         ELSE IF filtered = <<>>
                         THEN << R("all_filtered", RejectedActions(mode, resp.actions)) >>
                         ELSE <<>>
         IN  /\ received' = resp
             /\ IF resp.returncode = 0 /\ resp.parsed /\ RaisesOnType(resp.actions)
                THEN /\ stack' = <<>>
                     /\ outcome' = [kind |-> "raised",
                                    value |-> << R("AttributeError", "lower") >>]
                ELSE IF early # <<>>
                THEN LET ret == ReturnTo(Pop(stack), early)
                     IN  /\ stack' = ret.stack
                         /\ outcome' = ret.outcome
                ELSE /\ stack' = [stack EXCEPT ![Len(stack)] =
                                     [@ EXCEPT !.pos = "exec", !.actions = filtered,
                                               !.progress = UsesProgress(filtered)]]
                     /\ UNCHANGED outcome
    /\ UNCHANGED <<fs, agents, session, requests, spawned, failing, rechecks>>

ProcessRespond == ProcessRespondFrom(ResponsesFor(Top.agent))

(***************************************************************************)
(* One action of the batch, in either executor.                            *)
(***************************************************************************)
ExecuteAction ==
    /\ Running("process")
    /\ Top.pos = "exec"
    /\ Top.i <= Len(Top.actions)
    /\ \E inp \in InputsFor(normalize_action_type(Lower(Get(Top.actions[Top.i], "type")))) :
         LET st0 == [fs |-> fs, results |-> Top.results, failing |-> failing,
                     failed_commands |-> Top.failed_commands, spawned |-> spawned,
                     waiting |-> FALSE, answers |-> Top.answers]
             st1 == ExecuteOne(agents[Top.agent].mode, Top.progress, st0,
                               Top.actions[Top.i], inp)
         IN  /\ fs' = st1.fs
             /\ spawned' = st1.spawned
             /\ failing' = IF st1.fs # fs THEN inp.env ELSE st1.failing
             /\ stack' = [stack EXCEPT ![Len(stack)] =
                             IF st1.waiting
                             THEN [@ EXCEPT !.pos = "waiting"]
                             ELSE [@ EXCEPT !.i = @ + 1, !.results = st1.results,
                                            !.failed_commands = st1.failed_commands,
                                            !.answers = st1.answers]]
    /\ UNCHANGED <<agents, outcome, session, requests, rechecks, received>>

\* auto_debug as process() passes it (agent.py:1507 and 1511)
AutoDebug(mode) == mode \in {"craft", "code"}

\* any(a.get('type') in ['edit', 'create', 'delete'] for a in actions)
ReloadsContext(actions) ==
    \E k \in 1..Len(actions) : Get(actions[k], "type") \in {"edit", "create", "delete"}

\* the batch is done and no repair starts: the executor returns, process()
\* records the exchange and reloads the context (agent.py:860, 1514-1524)
FinishBatch ==
    /\ Running("process")
    /\ Top.pos = "exec"
    /\ Top.i > Len(Top.actions)
    /\ LET mode == agents[Top.agent].mode IN
         ~EntersRepair(mode, AutoDebug(mode), Top.failed_commands)
    /\ agents' = [agents EXCEPT ![Top.agent] =
                     [@ EXCEPT !.conversation_history = @ + 1,
                               !.project_context =
                                   IF ReloadsContext(Top.actions)
                                   THEN load_project_context(fs) ELSE @]]
    /\ LET ret == ReturnTo(Pop(stack), Top.results)
       IN  /\ stack' = ret.stack
           /\ outcome' = ret.outcome
    /\ UNCHANGED <<fs, session, requests, spawned, failing, rechecks, received>>
(***************************************************************************)
(* Agent._iterative_debug (agent.py:1152-1323).                            *)
(***************************************************************************)
\* the debug agent of a repair loop: Agent('debug') with copies of the
\* caller's context and history (agent.py:1154-1156 and 1090-1092)
DebugAgent(self) ==
    [mode |-> "debug", project_context |-> agents[self].project_context,
     conversation_history |-> agents[self].conversation_history]

\* the batch is done and hands over to the repair loop (agent.py:851-856,
\* 984-989 and 1154-1161)
EnterRepair ==
    /\ Running("process")
    /\ Top.pos = "exec"
    /\ Top.i > Len(Top.actions)
    /\ LET mode == agents[Top.agent].mode IN
         EntersRepair(mode, AutoDebug(mode), Top.failed_commands)
    /\ stack' = Append(stack, IterativeDebugFrame(Top.agent, Top.failed_commands,
                                                  DefaultMaxIterations))
    /\ agents' = Append(agents, DebugAgent(Top.agent))
    /\ session' = NewSession("iterative_debug", CommandsOf(Top.failed_commands),
                             DefaultMaxIterations, fs)
    /\ rechecks' = {}
    /\ UNCHANGED <<fs, outcome, requests, spawned, failing, received>>

\* loop head and body up to the nested pass (agent.py:1163-1214)
IterativeDebugIterate ==
    /\ Running("iterative_debug")
    /\ Top.pos = "loop"
    /\ Top.iteration < Top.max_iterations /\ ~Top.all_fixed
    /\ stack' = Append([stack EXCEPT ![Len(stack)] =
                            [@ EXCEPT !.iteration = @ + 1, !.pos = "nested"]],
                       ProcessFrame(Len(agents)))
    /\ session' = [session EXCEPT !.iteration = @ + 1,
                                  !.files = DOMAIN load_project_context(fs)]
    /\ rechecks' = {}
    /\ UNCHANGED <<fs, agents, outcome, requests, spawned, failing, received>>

\* after the nested pass (agent.py:1216-1219): the context is reloaded, then
\* the name files_before is read.  It is bound nowhere in _iterative_debug
\* (only in _debug_command, agent.py:1026) and is no module global, so the
\* read raises NameError; nothing up to main() catches it and the program
\* ends.  The rest of the loop body and both return statements are never
\* reached.
IterativeDebugAfterNested ==
    /\ Running("iterative_debug")
    /\ Top.pos = "after_nested"
    /\ agents' = << [agents[1] EXCEPT !.project_context =
                        IF Top.agent = 1 THEN load_project_context(fs) ELSE @] >>
    /\ stack' = <<>>
    /\ outcome' = [kind |-> "raised", value |-> << R("NameError", "files_before") >>]
    /\ session' = [session EXCEPT !.state = "Raised"]
    /\ UNCHANGED <<fs, requests, spawned, failing, rechecks, received>>

(***************************************************************************)
(* Agent._debug_command (agent.py:995-1150), called by main() in debug     *)
(* mode for an input that looks like a command (agent.py:1604-1613).       *)
(***************************************************************************)
\* agent.py:1003-1018
MainDebugCommand ==
    /\ stack = <<>>
    /\ requests = 0
    /\ agents[1].mode = "debug"
    /\ requests' = requests + 1
    /\ rechecks' = {}
    /\ \E command \in Commands, run \in Runs :
         LET r == run_command(command, None, failing, run.hangs, spawned) IN
         /\ spawned' = r.spawned
         /\ failing' = IF r.started /\ r.returned THEN run.env ELSE failing
         /\ IF ~r.returned
            THEN /\ stack' = << [DebugCommandFrame(1, command, DefaultMaxIterations)
                                    EXCEPT !.pos = "waiting"] >>
                 /\ outcome' = [kind |-> "none", value |-> <<>>]
                 /\ session' = NoSession
            ELSE IF r.returncode = 0
            THEN /\ stack' = <<>>
                 /\ outcome' = [kind |-> "returned",
                                value |-> << R("command_succeeded", command) >>]
                 /\ session' = NoSession
            ELSE /\ stack' = << DebugCommandFrame(1, command, DefaultMaxIterations) >>
                 /\ outcome' = [kind |-> "none", value |-> <<>>]
                 /\ session' = NewSession("debug_command", {command},
                                           DefaultMaxIterations, fs)
    /\ UNCHANGED <<fs, agents, received>>

\* loop head and body up to the nested pass (agent.py:1020-1094)
DebugCommandIterate ==
    /\ Running("debug_command")
    /\ Top.pos = "loop"
    /\ Top.iteration < Top.max_iterations
    /\ agents' = Append(agents, DebugAgent(Top.agent))
    /\ stack' = Append([stack EXCEPT ![Len(stack)] =
                            [@ EXCEPT !.iteration = @ + 1, !.pos = "nested",
                                      !.files_before =
                                          DOMAIN agents[Top.agent].project_context]],
                       ProcessFrame(Len(agents) + 1))
    /\ session' = [session EXCEPT !.iteration = @ + 1,
                                  !.files = DOMAIN load_project_context(fs)]
    /\ rechecks' = {}
    /\ UNCHANGED <<fs, outcome, requests, spawned, failing, received>>

\* dict.update
Update(c1, c2) ==
    [p \in DOMAIN c1 \cup DOMAIN c2 |-> IF p \in DOMAIN c2 THEN c2[p] ELSE c1[p]]

\* the success marker tests of agent.py:1126: the text of a successful run
\* result, or the quoted command, somewhere in the nested pass's summary.
\* No result string of the modelled batches quotes the command, so the
\* second test never adds a case here.
ReportsCommandSucceeded(debug_result, command) == HasCommandSucceeded(debug_result)

\* after the nested pass (agent.py:1096-1146)
DebugCommandAfterNested ==
    /\ Running("debug_command")
    /\ Top.pos = "after_nested"
    /\ LET self  == Top.agent
           dbg   == agents[Len(agents)]
           ctx   == Update(load_project_context(fs), dbg.project_context)
           hist  == agents[self].conversation_history
                    + (IF dbg.conversation_history > 0 THEN 1 ELSE 0)
           me    == [agents[self] EXCEPT !.project_context = ctx,
                                         !.conversation_history = hist]
           done  == [session EXCEPT !.state = "Resolved", !.reported_state = "Resolved",
                                    !.reported_iterations = Top.iteration]
       IN
       /\ agents' = << me >>
       /\ IF ReportsCommandSucceeded(Top.debug_result, Top.command)
          THEN /\ stack' = <<>>
               /\ outcome' = [kind |-> "returned",
                              value |-> << R("debug_complete", Top.command) >>]
               /\ session' = done
               /\ UNCHANGED <<spawned, failing, rechecks>>
          ELSE \E run \in Runs :
                 LET r == run_command(Top.command, None, failing, run.hangs, spawned) IN
                 /\ spawned' = r.spawned
                 /\ failing' = IF r.started /\ r.returned THEN run.env ELSE failing
                 /\ rechecks' = IF r.returned
                                THEN {[command |-> Top.command, returncode |-> r.returncode]}
                                ELSE rechecks
                 /\ IF ~r.returned
                    THEN /\ stack' = [stack EXCEPT ![Len(stack)] = [@ EXCEPT !.pos = "waiting"]]
                         /\ UNCHANGED <<outcome, session>>
                    ELSE IF r.returncode = 0
                    THEN /\ stack' = <<>>
                         /\ outcome' = [kind |-> "returned",
                                        value |-> << R("debug_complete", Top.command) >>]
                         /\ session' = done
                    ELSE /\ stack' = [stack EXCEPT ![Len(stack)] = [@ EXCEPT !.pos = "loop"]]
                         /\ UNCHANGED <<outcome, session>>
    /\ UNCHANGED <<fs, requests, received>>

\* the loop ran out of iterations (agent.py:1148-1150)
DebugCommandExhausted ==
    /\ Running("debug_command")
    /\ Top.pos = "loop"
    /\ Top.iteration >= Top.max_iterations
    /\ stack' = <<>>
    /\ outcome' = [kind |-> "returned", value |-> << R("debug_incomplete", Top.command) >>]
    /\ session' = [session EXCEPT !.state = "Exhausted", !.reported_state = "Exhausted",
                                  !.reported_iterations = Top.max_iterations]
    /\ UNCHANGED <<fs, agents, requests, spawned, failing, rechecks, received>>

Next ==
    \/ MainProcess
    \/ ProcessRespond
    \/ ExecuteAction
    \/ FinishBatch
    \/ EnterRepair
    \/ IterativeDebugIterate
    \/ IterativeDebugAfterNested
    \/ MainDebugCommand
    \/ DebugCommandIterate
    \/ DebugCommandAfterNested
    \/ DebugCommandExhausted

Spec == Init /\ [][Next]_vars

(***************************************************************************)
(* The same program when the backend answers with the whole range of       *)
(* action records: every kind, spellings the normaliser maps or does not   *)
(* map, missing targets, deny-listed commands, restricted-mode targets.    *)
(***************************************************************************)
MixedActions ==
    { A("delete", "a.py", ContentX),
      A("run", CmdSudoReboot, ContentX),
      A("run", CmdRm, ContentX),
      A("run", "", ContentX),
      A("create", "", ContentX),
      A("newfile", "a.py", ContentX),
      A("frobnicate", "a.py", ContentX),
      A("msg", "", ContentX),
      A("message", "a.py", ContentX),
      A("create", "d.design", ContentX),
      [type |-> "create", file |-> "d.design", content |-> ContentX],
      A("edit", "d.design", ContentY),
      A("create", "a.py", ContentX),
      A("create", "t.test", ContentX) }

\* a batch of three: a kept file action, a rejected one and a message
ExampleBatch ==
    << A("create", "d.design", ContentX), A("create", "a.py", ContentY),
       A("message", "", ContentX) >>

MixedResponsesFor(depth) ==
    IF depth = 1
    THEN ResponsesOver(MixedActions) \cup { Response(0, TRUE, ExampleBatch) }
    ELSE ResponsesOver(NestedActions)

InitMixed ==
    /\ fs \in { [p \in Paths |-> NoFile],
                 [p \in Paths |-> IF p = "a.py" THEN ContentOld ELSE NoFile],
                 [p \in Paths |-> IF p \in {"a.py", "d.design"} THEN ContentOld ELSE NoFile] }
    /\ \E m \in MODES : agents = << Agent(m, fs, 0) >>
    /\ stack = <<>>
    /\ outcome = [kind |-> "none", value |-> <<>>]
    /\ session = NoSession
    /\ requests = 0
    /\ spawned = {}
    /\ failing \in SUBSET (Runnable \cup {CmdSudoReboot})
    /\ rechecks = {}
    /\ received = NoResponse

\* main() with the request on the command line: one call of process()
\* (agent.py:1601-1620)
MainProcessOnce ==
    /\ requests = 0
    /\ MainProcess

ProcessRespondMixed == ProcessRespondFrom(MixedResponsesFor(Top.agent))

NextMixed ==
    \/ MainProcessOnce
    \/ ProcessRespondMixed
    \/ ExecuteAction
    \/ FinishBatch
    \/ EnterRepair
    \/ IterativeDebugIterate
    \/ IterativeDebugAfterNested

SpecMixed == InitMixed /\ [][NextMixed]_vars
(***************************************************************************)
(* One request whose answer spells the action type in every way the        *)
(* synonym table knows, in mixed case, with surrounding blanks, in unknown *)
(* words and as JSON null.                                                 *)
(***************************************************************************)
CanonicalKinds == {"create", "edit", "delete", "run", "message"}

TypeStrings ==
    CanonicalKinds \cup DOMAIN variations
    \cup {"Create", "WRITE", "Update ", " Exec ", "Remove", " Say", "Run",
          "frobnicate", "newfile", "", PyNone}

RunSpellings == {"run", "execute", "exec", "command", "runcommand", " Exec ", "Run"}

KindsActions ==
    { A(t, IF t \in RunSpellings THEN CmdMake ELSE "a.py", ContentX) : t \in TypeStrings }

KindsResponsesFor(depth) ==
    IF depth = 1
    THEN { Response(0, TRUE, <<a>>) : a \in KindsActions }
         \cup { Response(0, TRUE, <<a, A("create", "t.test", ContentY)>>) : a \in KindsActions }
    ELSE ResponsesOver(NestedActions)

InitKinds ==
    /\ fs \in { [p \in Paths |-> NoFile],
                 [p \in Paths |-> IF p = "a.py" THEN ContentOld ELSE NoFile] }
    /\ \E m \in MODES : agents = << Agent(m, fs, 0) >>
    /\ stack = <<>>
    /\ outcome = [kind |-> "none", value |-> <<>>]
    /\ session = NoSession
    /\ requests = 0
    /\ spawned = {}
    /\ failing \in SUBSET Runnable
    /\ rechecks = {}
    /\ received = NoResponse

ProcessRespondKinds == ProcessRespondFrom(KindsResponsesFor(Top.agent))

NextKinds ==
    \/ MainProcessOnce
    \/ ProcessRespondKinds
    \/ ExecuteAction
    \/ FinishBatch
    \/ EnterRepair
    \/ IterativeDebugIterate
    \/ IterativeDebugAfterNested

SpecKinds == InitKinds /\ [][NextKinds]_vars
(***************************************************************************)
(* The backend's answer as text: a sequence of characters.  json.loads is  *)
(* the decoder of the standard library (json/decoder.py, json/scanner.py)  *)
(* on the characters of the model: objects, arrays, strings and the three  *)
(* literals; the texts carry no numbers.  A decoded string is again a      *)
(* sequence of characters.                                                 *)
(***************************************************************************)
Quote == "\""
Backslash == "\\"
\* the characters below 32 of the model
ControlChars == {"\n", "\r", "\t", "\f"}
\* json.decoder.WHITESPACE_STR
JsonWhitespace == {" ", "\t", "\n", "\r"}
\* str.strip() and the regex class \s
PyWhitespace == {" ", "\t", "\n", "\r", "\f"}
HexDigits == {"0", "1", "2", "3", "4", "5", "6", "7", "8", "9",
              "a", "b", "c", "d", "e", "f", "A", "B", "C", "D", "E", "F"}

\* json.decoder.BACKSLASH: what a valid escape stands for ("<BS>" is the
\* backspace character, for which the strings of the model have no notation)
BACKSLASH ==
    [c \in {Quote, Backslash, "/", "b", "f", "n", "r", "t"} |->
        CASE c = "b" -> "<BS>" [] c = "f" -> "\f" [] c = "n" -> "\n"
          [] c = "r" -> "\r" [] c = "t" -> "\t" [] OTHER -> c]

\* the JSON values
JStr(v)  == [k |-> "str", v |-> v]
JObj(m)  == [k |-> "obj", m |-> m]
JArr(v)  == [k |-> "arr", v |-> v]
JLit(v)  == [k |-> "lit", v |-> v]

\* the string a character sequence spells
RECURSIVE Join(_)
Join(s) == IF s = <<>> THEN "" ELSE Head(s) \o Join(Tail(s))

\* Python dicts as sequences of [key, val] with distinct keys
DictHas(m, key) == \E i \in 1..Len(m) : m[i].key = key
DictGet(m, key) == m[CHOOSE i \in 1..Len(m) : m[i].key = key].val
DictSet(m, key, val) ==
    IF DictHas(m, key)
    THEN [i \in 1..Len(m) |-> IF m[i].key = key THEN [key |-> key, val |-> val] ELSE m[i]]
    ELSE Append(m, [key |-> key, val |-> val])
DictPop(m, key) == SelectSeq(m, LAMBDA e : e.key # key)


\* a decoder result: the value and the index behind it, or JSONDecodeError
\* with its message
Ok(val, end) == [ok |-> TRUE, val |-> val, end |-> end, err |-> ""]
Fail(err)    == [ok |-> FALSE, val |-> JLit("none"), end |-> 0, err |-> err]

At(s, i) == IF i >= 1 /\ i <= Len(s) THEN s[i] ELSE ""

MinOf(S) == CHOOSE i \in S : \A j \in S : i <= j
MaxOf(S) == CHOOSE i \in S : \A j \in S : i >= j

\* WHITESPACE.match(s, i).end()
SkipWs(s, i) ==
    IF i > Len(s) THEN i ELSE MinOf({j \in i..(Len(s) + 1) : At(s, j) \notin JsonWhitespace})

\* one round of the loop of json.decoder.py_scanstring with strict=True at
\* index i: the closing quote (stop, no err), a JSONDecodeError (stop, err),
\* or the decoded character and the index behind it
ScanChar(s, i) ==
    LET stop(err)     == [stop |-> TRUE, err |-> err, end |-> i + 1, char |-> ""]
        char(c, end)  == [stop |-> FALSE, err |-> "", end |-> end, char |-> c]
    IN  IF i > Len(s) THEN stop("Unterminated string starting at")
        ELSE IF s[i] = Quote THEN stop("")
        ELSE IF s[i] = Backslash
        THEN IF i + 1 > Len(s) THEN stop("Unterminated string starting at")
             ELSE IF s[i + 1] = "u"
             THEN IF i + 5 <= Len(s) /\ \A d \in 2..5 : s[i + d] \in HexDigits
                     /\ s[i + 3] \notin {"x", "X"}
                  THEN char("<U+>", i + 6)
                  ELSE stop("Invalid \\uXXXX escape")
             ELSE IF s[i + 1] \in DOMAIN BACKSLASH
             THEN char(BACKSLASH[s[i + 1]], i + 2)
             ELSE stop("Invalid \\escape")
        ELSE IF s[i] \in ControlChars THEN stop("Invalid control character at")
        ELSE char(s[i], i + 1)

\* json.decoder.py_scanstring; i is the index behind the opening quote, c
\* the round at the index the scan has come to
RECURSIVE py_scanstring(_, _, _), ScanOn(_, _, _)
py_scanstring(s, i, acc) == ScanOn(s, acc, ScanChar(s, i))
ScanOn(s, acc, c) ==
    IF ~c.stop THEN py_scanstring(s, c.end, Append(acc, c.char))
    ELSE IF c.err = "" THEN Ok(acc, c.end)
    ELSE Fail(c.err)

IsLiteral(s, i, word) == i + Len(word) - 1 <= Len(s) /\ SubSeq(s, i, i + Len(word) - 1) = word

\* a scanned string as a value
StringValue(r) == IF r.ok THEN Ok(JStr(r.val), r.end) ELSE r

\* json.scanner.py_make_scanner._scan_once, JSONObject and JSONArray, each
\* statement of the two loops an operator of its own.  lenient admits a
\* comma before the closing brace or bracket, as json5 does.
RECURSIVE scan_once(_, _, _), ObjectFrom(_, _, _), ArrayFrom(_, _, _),
          ObjectMembers(_, _, _, _), MemberAfterKey(_, _, _, _),
          MemberAfterValue(_, _, _, _, _), NextMember(_, _, _, _),
          MemberAfterComma(_, _, _, _), ArrayItems(_, _, _, _),
          ItemAfterValue(_, _, _, _), NextItem(_, _, _, _), ItemAfterComma(_, _, _, _)
scan_once(s, i, lenient) ==
    CASE At(s, i) = Quote -> StringValue(py_scanstring(s, i + 1, <<>>))
      [] At(s, i) = "{" -> ObjectFrom(s, SkipWs(s, i + 1), lenient)
      [] At(s, i) = "[" -> ArrayFrom(s, SkipWs(s, i + 1), lenient)
      [] IsLiteral(s, i, <<"n", "u", "l", "l">>)      -> Ok(JLit("null"), i + 4)
      [] IsLiteral(s, i, <<"t", "r", "u", "e">>)      -> Ok(JLit("true"), i + 4)
      [] IsLiteral(s, i, <<"f", "a", "l", "s", "e">>) -> Ok(JLit("false"), i + 5)
      [] OTHER -> Fail("Expecting value")

\* JSONObject behind the opening brace and the whitespace after it
ObjectFrom(s, j, lenient) ==
    IF At(s, j) = "}" THEN Ok(JObj(<<>>), j + 1)
    ELSE IF At(s, j) = Quote THEN ObjectMembers(s, j + 1, <<>>, lenient)
    ELSE Fail("Expecting property name enclosed in double quotes")

\* the loop of JSONObject; i is the index behind the opening quote of a key
ObjectMembers(s, i, members, lenient) ==
    MemberAfterKey(s, py_scanstring(s, i, <<>>), members, lenient)

MemberAfterKey(s, key, members, lenient) ==
    IF ~key.ok THEN key
    ELSE IF At(s, SkipWs(s, key.end)) # ":" THEN Fail("Expecting ':' delimiter")
    ELSE MemberAfterValue(s, key, scan_once(s, SkipWs(s, SkipWs(s, key.end) + 1), lenient),
                          members, lenient)

MemberAfterValue(s, key, value, members, lenient) ==
    IF ~value.ok THEN value
    ELSE NextMember(s, SkipWs(s, value.end), DictSet(members, Join(key.val), value.val),
                    lenient)

NextMember(s, e, members, lenient) ==
    IF At(s, e) = "}" THEN Ok(JObj(members), e + 1)
    ELSE IF At(s, e) # "," THEN Fail("Expecting ',' delimiter")
    ELSE MemberAfterComma(s, SkipWs(s, e + 1), members, lenient)

MemberAfterComma(s, q, members, lenient) ==
    IF At(s, q) = Quote THEN ObjectMembers(s, q + 1, members, lenient)
    ELSE IF lenient /\ At(s, q) = "}" THEN Ok(JObj(members), q + 1)
    ELSE Fail("Expecting property name enclosed in double quotes")

\* JSONArray behind the opening bracket and the whitespace after it
ArrayFrom(s, j, lenient) ==
    IF At(s, j) = "]" THEN Ok(JArr(<<>>), j + 1)
    ELSE ArrayItems(s, j, <<>>, lenient)

\* the loop of JSONArray; i is the index of the next item
ArrayItems(s, i, items, lenient) ==
    ItemAfterValue(s, scan_once(s, i, lenient), items, lenient)

ItemAfterValue(s, value, items, lenient) ==
    IF ~value.ok THEN value
    ELSE NextItem(s, SkipWs(s, value.end), Append(items, value.val), lenient)

NextItem(s, e, items, lenient) ==
    IF At(s, e) = "]" THEN Ok(JArr(items), e + 1)
    ELSE IF At(s, e) # "," THEN Fail("Expecting ',' delimiter")
    ELSE ItemAfterComma(s, SkipWs(s, e + 1), items, lenient)

ItemAfterComma(s, q, items, lenient) ==
    IF lenient /\ At(s, q) = "]" THEN Ok(JArr(items), q + 1)
    ELSE ArrayItems(s, q, items, lenient)

\* JSONDecoder.decode: nothing but whitespace may follow the value
WholeText(s, r) ==
    IF ~r.ok THEN r
    ELSE IF SkipWs(s, r.end) <= Len(s) THEN Fail("Extra data")
    ELSE r

Decode(s, lenient) == WholeText(s, scan_once(s, SkipWs(s, 1), lenient))

json_loads(s)  == Decode(s, FALSE)
json5_loads(s) == Decode(s, TRUE)

(***************************************************************************)
(* Strings as character sequences: the str methods parse_response uses.    *)
(***************************************************************************)

Matches(s, i, sub) == i >= 1 /\ i + Len(sub) - 1 <= Len(s) /\ SubSeq(s, i, i + Len(sub) - 1) = sub

\* str.find(sub, from) and str.rfind(sub, 0, before), 1-based, 0 for not found
Find(s, sub, from) ==
    LET found == {i \in from..Len(s) : Matches(s, i, sub)}
    IN  IF found = {} THEN 0 ELSE MinOf(found)
RFind(s, sub, before) ==
    LET found == {i \in 1..(before - 1) : Matches(s, i, sub)}
    IN  IF found = {} THEN 0 ELSE MaxOf(found)

\* str.count of one character
Count(s, c) == Cardinality({i \in 1..Len(s) : s[i] = c})

RECURSIVE LStrip(_, _), RStrip(_, _)
LStrip(s, chars) == IF s # <<>> /\ Head(s) \in chars THEN LStrip(Tail(s), chars) ELSE s
RStrip(s, chars) ==
    IF s # <<>> /\ s[Len(s)] \in chars THEN RStrip(SubSeq(s, 1, Len(s) - 1), chars) ELSE s
\* str.strip() and str.strip(chars)
StripChars(s, chars) == LStrip(RStrip(s, chars), chars)
StripText(s) == StripChars(s, PyWhitespace)

\* the index behind the run of characters of the class that starts at i
SkipIn(s, i, class) ==
    IF i > Len(s) THEN i ELSE MinOf({j \in i..(Len(s) + 1) : At(s, j) \notin class})

\* a loop over the indices lo..hi of s, run by halves: the round at an index
\* takes place when the loop has come to it (st.i)
RECURSIVE Rounds(_, _, _, _, _)
Rounds(Round(_, _), s, lo, hi, st) ==
    IF lo > hi THEN st
    ELSE IF lo = hi THEN IF st.i = lo THEN Round(s, st) ELSE st
    ELSE LET mid  == (lo + hi) \div 2
             left == Rounds(Round, s, lo, mid, st)
         IN  IF left.i > hi THEN left ELSE Rounds(Round, s, mid + 1, hi, left)

(***************************************************************************)
(* Agent._fix_common_json_issues (agent.py:659-757).                       *)
(***************************************************************************)
\* the number of backslashes that end at index i (agent.py:693-697)
RECURSIVE BackslashesBefore(_, _)
BackslashesBefore(s, i) ==
    IF At(s, i) = Backslash THEN 1 + BackslashesBefore(s, i - 1) ELSE 0

\* one round of the character loop (agent.py:667-726)
FixRound(json_str, st) ==
    LET i    == st.i
        char == json_str[i]
        to(next, s, e, out) ==
            [i |-> next, in_string |-> s, escape_next |-> e, result |-> st.result \o out]
    IN  IF st.escape_next
        THEN IF char \in {"n", "r", "t", "b", "f", Backslash, Quote, "/"}
             THEN to(i + 1, st.in_string, FALSE, <<Backslash, char>>)
             ELSE IF char = "u"
             THEN IF i + 4 <= Len(json_str)
                  THEN to(i + 5, st.in_string, FALSE,
                          <<Backslash, "u">> \o SubSeq(json_str, i + 1, i + 4))
                  ELSE to(i + 1, st.in_string, FALSE, <<Backslash, "u", "0", "0", "0", "0">>)
             ELSE to(i + 1, st.in_string, FALSE, <<char>>)
        ELSE IF char = Backslash THEN to(i + 1, st.in_string, TRUE, <<char>>)
        ELSE IF char = Quote
        THEN IF i > 1 /\ json_str[i - 1] = Backslash
                /\ BackslashesBefore(json_str, i - 1) % 2 = 1
             THEN to(i + 1, st.in_string, FALSE, <<char>>)
             ELSE to(i + 1, ~st.in_string, FALSE, <<char>>)
        ELSE IF st.in_string /\ char \in ControlChars
        THEN to(i + 1, st.in_string, FALSE,
                CASE char = "\n" -> <<Backslash, "n">>
                  [] char = "\r" -> <<Backslash, "r">>
                  [] char = "\t" -> <<Backslash, "t">>
                  [] OTHER       -> <<>>)
        ELSE to(i + 1, st.in_string, FALSE, <<char>>)

\* the character loop (agent.py:661-730)
FixScan(json_str) ==
    Rounds(FixRound, json_str, 1, Len(json_str),
           [i |-> 1, in_string |-> FALSE, escape_next |-> FALSE, result |-> <<>>]).result

\* content.replace of the three control characters (agent.py:741-743)
RECURSIVE EscapeControls(_)
EscapeControls(content) ==
    IF content = <<>> THEN <<>>
    ELSE LET c == Head(content)
         IN  (CASE c = "\n" -> <<Backslash, "n">>
                [] c = "\r" -> <<Backslash, "r">>
                [] c = "\t" -> <<Backslash, "t">>
                [] OTHER    -> <<c>>) \o EscapeControls(Tail(content))

ContentKey == <<Quote, "c", "o", "n", "t", "e", "n", "t", Quote>>

\* re.sub of ("content"\s*:\s*")(.*?)(") with fix_content_newlines
\* (agent.py:735-755), one round at every index where a match can start:
\* the group between the quotes holds no quote, so the quote substitution of
\* agent.py:745 finds nothing
SubRound(fixed, st) ==
    LET i     == st.i
        colon == SkipIn(fixed, i + Len(ContentKey), PyWhitespace)
        open  == SkipIn(fixed, colon + 1, PyWhitespace)
        close == Find(fixed, <<Quote>>, open + 1)
    IN  IF /\ Matches(fixed, i, ContentKey)
           /\ At(fixed, colon) = ":"
           /\ At(fixed, open) = Quote
           /\ close # 0
        THEN [i |-> close + 1,
              result |-> st.result \o SubSeq(fixed, i, open)
                                   \o EscapeControls(SubSeq(fixed, open + 1, close - 1))
                                   \o <<Quote>>]
        ELSE [i |-> i + 1, result |-> Append(st.result, fixed[i])]

fix_content_newlines(fixed) ==
    Rounds(SubRound, fixed, 1, Len(fixed), [i |-> 1, result |-> <<>>]).result

_fix_common_json_issues(json_str) == fix_content_newlines(FixScan(json_str))

(***************************************************************************)
(* fix_content_newlines_in_json of Strategy 5 (agent.py:432-497).          *)
(***************************************************************************)
ContentKeyColon == ContentKey \o <<":">>

\* one round of the loop of agent.py:438-495
ContentRound(text, st) ==
    LET i == st.i
        j == SkipIn(text, i + 10, {" ", "\t", "\n", "\r", ":"})
        c == text[i]
        k == SkipIn(text, i + 1, {" ", "\t", "\n", "\r"})
        to(next, v, out) ==
            [i |-> next, in_content_value |-> v, result |-> st.result \o out]
    IN  IF i + 10 <= Len(text) /\ Matches(text, i, ContentKeyColon) /\ At(text, j) = Quote
        THEN to(j + 1, TRUE, SubSeq(text, i, j))
        ELSE IF ~st.in_content_value THEN to(i + 1, FALSE, <<c>>)
        ELSE IF c = Backslash
        THEN IF i + 1 <= Len(text) THEN to(i + 2, TRUE, SubSeq(text, i, i + 1))
             ELSE to(i + 1, TRUE, <<c>>)
        ELSE IF c = Quote
        THEN IF k > Len(text) \/ text[k] \in {",", "}", "]"}
             THEN to(i + 1, FALSE, <<c>>)
             ELSE to(i + 1, TRUE, <<Backslash, Quote>>)
        ELSE IF c \in {"\n", "\r", "\t"} /\ (i = 1 \/ text[i - 1] # Backslash)
        THEN to(i + 1, TRUE, EscapeControls(<<c>>))
        ELSE to(i + 1, TRUE, <<c>>)

fix_content_newlines_in_json(text) ==
    Rounds(ContentRound, text, 1, Len(text),
           [i |-> 1, in_content_value |-> FALSE, result |-> <<>>]).result

(***************************************************************************)
(* Truth values of Python.                                                 *)
(***************************************************************************)
\* bool(value)
Truthy(value) ==
    CASE value.k = "str" -> value.v # <<>>
      [] value.k = "obj" -> value.m # <<>>
      [] value.k = "arr" -> value.v # <<>>
      [] OTHER           -> value.v = "true"

IsDictWith(value, key) == value.k = "obj" /\ DictHas(value.m, key)

(***************************************************************************)
(* Agent.parse_response (agent.py:295-657).                                *)
(***************************************************************************)
\* the backquote is written ~: a string of the module cannot hold one
Backquote == "~"
Fence == <<Backquote, Backquote, Backquote>>
ActionsKey == <<Quote, "a", "c", "t", "i", "o", "n", "s", Quote>>

\* agent.py:299-313; after strip() the text never starts with a newline, so
\* the test of agent.py:312 is never true
Unlabelled(inner) ==
    IF Matches(inner, 1, <<"j", "s", "o", "n">>) THEN StripText(SubSeq(inner, 5, Len(inner)))
    ELSE inner

Unfenced(response) ==
    IF Matches(response, 1, Fence) /\ Find(response, Fence, 4) # 0
    THEN Unlabelled(StripText(SubSeq(response, 4, Find(response, Fence, 4) - 1)))
    ELSE response

StripFence(text) == Unfenced(StripText(text))

\* one round of the depth count of agent.py:326-335 and 522-538: end is the
\* index of the brace that brings the depth back to 0
BraceRound(s, st) ==
    IF s[st.i] = "{" THEN [st EXCEPT !.i = @ + 1, !.depth = @ + 1]
    ELSE IF s[st.i] = "}"
    THEN IF st.depth = 1 THEN [st EXCEPT !.i = Len(s) + 1, !.end = st.i]
         ELSE [st EXCEPT !.i = @ + 1, !.depth = @ - 1]
    ELSE [st EXCEPT !.i = @ + 1]

\* the brace that closes the one at i, 0 if there is none
MatchBrace(s, i) ==
    IF i < 1 THEN 0
    ELSE Rounds(BraceRound, s, i, Len(s), [i |-> i, depth |-> 0, end |-> 0]).end

\* agent.py:315-352: the span of the response handed to the strategies, from
\* start to end inclusive; start = 0 or end = 0 is the 'No JSON found' return
SpanFrom(response, actions_start, start) ==
    [start |-> start,
     end   |-> IF start = 0 THEN 0
               ELSE IF actions_start # 0 /\ MatchBrace(response, start) # 0
               THEN MatchBrace(response, start)
               ELSE RFind(response, <<"}">>, Len(response) + 1)]

SpanStart(response, actions_start) ==
    IF actions_start # 0 /\ RFind(response, <<"{">>, actions_start) # 0
    THEN RFind(response, <<"{">>, actions_start)
    ELSE Find(response, <<"{">>, 1)

JsonSpan(response) ==
    SpanFrom(response, Find(response, ActionsKey, 1),
             SpanStart(response, Find(response, ActionsKey, 1)))

\* Normalize field names (agent.py:357-364 and 394-401): path, then
\* file_path, becomes target when the action has no target
RenameAction(item) ==
    IF item.k # "obj" THEN item
    ELSE LET m  == item.m
             m1 == IF DictHas(m, "path") /\ ~DictHas(m, "target")
                   THEN DictSet(DictPop(m, "path"), "target", DictGet(m, "path")) ELSE m
             m2 == IF DictHas(m1, "file_path") /\ ~DictHas(m1, "target")
                   THEN DictSet(DictPop(m1, "file_path"), "target", DictGet(m1, "file_path"))
                   ELSE m1
         IN  JObj(m2)

\* for action in parsed.get('actions', []): a literal is not iterable
RenameRaises(parsed) == IsDictWith(parsed, "actions") /\ DictGet(parsed.m, "actions").k = "lit"

Rename(parsed) ==
    IF IsDictWith(parsed, "actions") /\ DictGet(parsed.m, "actions").k = "arr"
    THEN LET items == DictGet(parsed.m, "actions").v
         IN  JObj(DictSet(parsed.m, "actions",
                          JArr([i \in 1..Len(items) |-> RenameAction(items[i])])))
    ELSE parsed

\* 'Expecting' in str(e) or 'Unterminated' in str(e), on the messages of the
\* decoder
MentionsIncomplete(err) ==
    err \in {"Expecting value", "Expecting ',' delimiter", "Expecting ':' delimiter",
             "Expecting property name enclosed in double quotes",
             "Unterminated string starting at"}

\* agent.py:370-372
MissingBraces(json_str) == Count(json_str, "{") - Count(json_str, "}")

\* one round of the quote scan of agent.py:377-385
QuoteRound(json_str, st) ==
    IF st.escape_next THEN [st EXCEPT !.i = @ + 1, !.escape_next = FALSE]
    ELSE IF json_str[st.i] = Backslash THEN [st EXCEPT !.i = @ + 1, !.escape_next = TRUE]
    ELSE IF json_str[st.i] = Quote THEN [st EXCEPT !.i = @ + 1, !.in_string = ~@]
    ELSE [st EXCEPT !.i = @ + 1]

\* agent.py:374-385: whether the text ends inside a string
InString(json_str) ==
    Rounds(QuoteRound, json_str, 1, Len(json_str),
           [i |-> 1, in_string |-> FALSE, escape_next |-> FALSE]).in_string

\* agent.py:387-391
RepairTruncated(json_str) ==
    ( IF InString(json_str)
      THEN Append(RStrip(json_str, PyWhitespace), Quote)
      ELSE json_str )
    \o [k \in 1..MissingBraces(json_str) |-> "}"]

\* json_objects.append(parsed_obj) unless json.loads raised
Kept(list, parsed) == IF parsed.ok THEN Append(list, parsed.val) ELSE list

\* one round of the scan of Strategy 6 (agent.py:519-542): the object that
\* starts at st.i and ends at j, kept when json.loads accepts it
ObjectRoundTo(json_str, st, j) ==
    IF json_str[st.i] = "{" /\ j # 0
    THEN [i |-> j + 1,
          json_objects |-> Kept(st.json_objects, json_loads(SubSeq(json_str, st.i, j)))]
    ELSE [st EXCEPT !.i = @ + 1]

ObjectRound(json_str, st) == ObjectRoundTo(json_str, st, MatchBrace(json_str, st.i))

ScanObjects(json_str) ==
    Rounds(ObjectRound, json_str, 1, Len(json_str), [i |-> 1, json_objects |-> <<>>]).json_objects

action_type_map ==
    [a \in {"create_project", "add_file", "create_file", "edit_file", "update_file",
            "delete_file", "run_command", "execute"} |->
        CASE a \in {"create_project", "add_file", "create_file"} -> "create"
          [] a \in {"edit_file", "update_file"}                  -> "edit"
          [] a = "delete_file"                                   -> "delete"
          [] OTHER                                               -> "run"]

\* parsed.get(key): the value, or None (a falsy literal) for a missing key
GetOrNone(m, key) == IF DictHas(m, key) THEN DictGet(m, key) ELSE JLit("null")

\* a or b or ... or '': the first truthy value of the list, else the empty string
RECURSIVE FirstTruthy(_, _)
FirstTruthy(m, keys) ==
    IF keys = <<>> THEN JStr(<<>>)
    ELSE IF Truthy(GetOrNone(m, Head(keys))) THEN GetOrNone(m, Head(keys))
    ELSE FirstTruthy(m, Tail(keys))

\* agent.py:549-588: what one found object adds to the actions; raises says
\* that the conversion raised (a type that cannot be a dict key, strip() on
\* a value that is not a string), which the except of agent.py:622 turns
\* into the failure of the whole strategy
ConvertObject(parsed) ==
    IF IsDictWith(parsed, "action")
    THEN LET m       == parsed.m
             action  == GetOrNone(m, "action")
             name    == IF action.k = "str" THEN Join(action.v) ELSE ""
             type    == IF name \in DOMAIN action_type_map THEN action_type_map[name]
                        ELSE "create"
             target0 == FirstTruthy(m, <<"file_path", "target", "path", "file", "file_name">>)
             target  == StripText(target0.v)
             content == FirstTruthy(m, <<"content", "code", "data">>)
             project == GetOrNone(m, "project_name")
             made(t) == JObj(<< [key |-> "type", val |-> JStr(Chars(type))],
                                [key |-> "target", val |-> JStr(t)],
                                [key |-> "content", val |-> content] >>)
         IN  IF action.k \in {"obj", "arr"} \/ target0.k # "str"
             THEN [raises |-> TRUE, actions |-> <<>>]
             ELSE IF target # <<>>
             THEN [raises |-> FALSE, actions |-> << made(target) >>]
             ELSE IF Truthy(project) /\ type = "create" /\ project.k = "str"
             THEN [raises |-> FALSE, actions |-> << made(project.v \o Chars(".design")) >>]
             ELSE [raises |-> FALSE, actions |-> <<>>]
    ELSE IF IsDictWith(parsed, "actions") /\ DictGet(parsed.m, "actions").k = "arr"
    THEN [raises |-> FALSE, actions |-> DictGet(parsed.m, "actions").v]
    ELSE [raises |-> FALSE, actions |-> <<>>]

RECURSIVE ConvertObjects(_, _), ConvertRest(_, _, _)
ConvertObjects(json_objects, actions) ==
    IF json_objects = <<>> THEN [raises |-> FALSE, actions |-> actions]
    ELSE ConvertRest(json_objects, actions, ConvertObject(Head(json_objects)))

ConvertRest(json_objects, actions, c) ==
    IF c.raises THEN c
    ELSE ConvertObjects(Tail(json_objects), actions \o c.actions)

ActionsPayload(actions) == JObj(<< [key |-> "actions", val |-> JArr(actions)] >>)

\* if actions: return {'actions': actions} (agent.py:590-591)
PayloadOf(c) ==
    IF ~c.raises /\ c.actions # <<>> THEN Ok(ActionsPayload(c.actions), 0)
    ELSE Fail("no objects")

\* Strategy 6 as a whole.  The single-object parse of agent.py:593-621 is
\* json.loads on the text Strategy 1 has already failed on: it raises again.
MultiObject(json_str) == PayloadOf(ConvertObjects(ScanObjects(json_str), <<>>))

\* Strategy 7 (agent.py:625-648).
\* re.search(r'"actions"\s*:\s*\[(.*?)\]'): the group of the leftmost match
ActionsArray(json_str) ==
    LET hits == {i \in 1..Len(json_str) :
                   LET colon == SkipIn(json_str, i + Len(ActionsKey), PyWhitespace)
                       open  == SkipIn(json_str, colon + 1, PyWhitespace)
                   IN  /\ Matches(json_str, i, ActionsKey)
                       /\ At(json_str, colon) = ":"
                       /\ At(json_str, open) = "["
                       /\ Find(json_str, <<"]">>, open + 1) # 0}
    IN  IF hits = {} THEN [found |-> FALSE, group |-> <<>>]
        ELSE LET i     == MinOf(hits)
                 colon == SkipIn(json_str, i + Len(ActionsKey), PyWhitespace)
                 open  == SkipIn(json_str, colon + 1, PyWhitespace)
             IN  [found |-> TRUE,
                  group |-> SubSeq(json_str, open + 1, Find(json_str, <<"]">>, open + 1) - 1)]

\* the index behind the run of characters that are no braces
SkipNoBrace(s, i) ==
    IF i > Len(s) THEN i ELSE MinOf({j \in i..(Len(s) + 1) : At(s, j) \in {"{", "}", ""}})

\* the groups (?:\{[^{}]*\}[^{}]*)* from index i on
RECURSIVE SkipInnerObjects(_, _)
SkipInnerObjects(s, i) ==
    IF At(s, i) = "{" /\ At(s, SkipNoBrace(s, i + 1)) = "}"
    THEN SkipInnerObjects(s, SkipNoBrace(s, SkipNoBrace(s, i + 1) + 1))
    ELSE i

\* the end of the match of \{[^{}]*(?:\{[^{}]*\}[^{}]*)*\} at i, 0 for none
ObjectMatch(s, i) ==
    LET j == SkipInnerObjects(s, SkipNoBrace(s, i + 1))
    IN  IF At(s, i) = "{" /\ At(s, j) = "}" THEN j ELSE 0

\* re.findall, then the repair and parse of every match (agent.py:632-644):
\* the round at an index where a match may start, j being its end
RecoverRoundTo(actions_str, st, j) ==
    IF j = 0 THEN [st EXCEPT !.i = @ + 1]
    ELSE [i |-> j + 1,
          actions |-> Kept(st.actions,
                           json_loads(_fix_common_json_issues(
                               <<"{">> \o StripChars(SubSeq(actions_str, st.i, j), {"{", "}"})
                                       \o <<"}">>)))]

RecoverRound(actions_str, st) == RecoverRoundTo(actions_str, st, ObjectMatch(actions_str, st.i))

RecoverObjects(actions_str) ==
    Rounds(RecoverRound, actions_str, 1, Len(actions_str), [i |-> 1, actions |-> <<>>]).actions

\* if actions: return {'actions': actions} (agent.py:645-646)
RecoveredPayload(actions) ==
    IF actions # <<>> THEN Ok(ActionsPayload(actions), 0) ELSE Fail("no actions")

RegexRecover(json_str) == RecoveredPayload(RecoverObjects(ActionsArray(json_str).group))

\* the strategies in the order of the code
Strategies ==
    << "strict", "truncation_repair", "lenient", "sanitizer", "lenient_sanitized",
       "content_newlines", "lenient_content_newlines", "multi_object", "regex" >>

\* the truncation repair in the except clause of the strict parse, for the
\* decoder's messages of an incomplete text with more '{' than '}'
\* (agent.py:366-391)
TruncationRepair(json_str, err) ==
    IF MentionsIncomplete(err) /\ MissingBraces(json_str) > 0
    THEN json_loads(RepairTruncated(json_str))
    ELSE Fail("not incomplete")

\* what one strategy makes of json_str: the payload json.loads (or json5)
\* hands back, or the failure that sends parse_response on to the next one;
\* the two lenient parses need the json5 package
Attempt(json_str, strategy, HAS_JSON5) ==
    CASE strategy = "strict" -> json_loads(json_str)
      [] strategy = "truncation_repair" -> TruncationRepair(json_str, json_loads(json_str).err)
      [] strategy = "lenient" ->
           IF HAS_JSON5 THEN json5_loads(json_str) ELSE Fail("no json5")
      [] strategy = "sanitizer" -> json_loads(_fix_common_json_issues(json_str))
      [] strategy = "lenient_sanitized" ->
           IF HAS_JSON5 THEN json5_loads(_fix_common_json_issues(json_str))
           ELSE Fail("no json5")
      [] strategy = "content_newlines" -> json_loads(fix_content_newlines_in_json(json_str))
      [] strategy = "lenient_content_newlines" ->
           IF HAS_JSON5 THEN json5_loads(fix_content_newlines_in_json(json_str))
           ELSE Fail("no json5")
      [] strategy = "multi_object" -> MultiObject(json_str)
      [] strategy = "regex" -> RegexRecover(json_str)

\* what parse_response returns: the payload and the strategy that produced
\* it, or None
Returned(strategy, value) == [returned |-> TRUE, strategy |-> strategy, value |-> value]
ReturnedNone(why)         == [returned |-> FALSE, strategy |-> why, value |-> JObj(<<>>)]

\* the strategies from the k-th of the list on (agent.py:407-653): a strategy
\* returns whatever it parsed
RECURSIVE Ladder(_, _, _), Rung(_, _, _, _)
Ladder(json_str, k, HAS_JSON5) ==
    IF k > Len(Strategies) THEN ReturnedNone("all_failed")
    ELSE Rung(json_str, k, HAS_JSON5, Attempt(json_str, Strategies[k], HAS_JSON5))

Rung(json_str, k, HAS_JSON5, tried) ==
    IF tried.ok THEN Returned(Strategies[k], tried.val)
    ELSE Ladder(json_str, k + 1, HAS_JSON5)

\* the truncation repair normalises the field names of what it parsed; a
\* TypeError of the normalisation is passed over (agent.py:392-405)
AfterRepair(json_str, repaired, HAS_JSON5) ==
    IF repaired.ok /\ ~RenameRaises(repaired.val)
    THEN Returned("truncation_repair", Rename(repaired.val))
    ELSE Ladder(json_str, 3, HAS_JSON5)

\* Strategy 1 normalises the field names of what it parsed; a TypeError of
\* the normalisation ends parse_response at agent.py:655
AfterStrict(json_str, strict, HAS_JSON5) ==
    IF strict.ok
    THEN IF RenameRaises(strict.val) THEN ReturnedNone("TypeError")
         ELSE Returned("strict", Rename(strict.val))
    ELSE AfterRepair(json_str, TruncationRepair(json_str, strict.err), HAS_JSON5)

ParseSpan(response, span, HAS_JSON5) ==
    IF span.start = 0 \/ span.end = 0 THEN ReturnedNone("no_json")
    ELSE AfterStrict(SubSeq(response, span.start, span.end),
                     json_loads(SubSeq(response, span.start, span.end)), HAS_JSON5)

ParseResponse(response, HAS_JSON5) == ParseSpan(response, JsonSpan(response), HAS_JSON5)

parse_response(text, HAS_JSON5) == ParseResponse(StripFence(text), HAS_JSON5)

(***************************************************************************)
(* From the payload to the batch process() works on (agent.py:1421-1423):  *)
(* an action is a record of strings, its content the sequence of its       *)
(* lines.                                                                  *)
(***************************************************************************)
\* the first line of a text and the index of the newline behind it
LineEnd(chars) ==
    IF Find(chars, <<"\n">>, 1) = 0 THEN Len(chars) + 1 ELSE Find(chars, <<"\n">>, 1)

\* re.match(r'^#{1,3}\s+.+$', line) of break_down_tasks (progress.py:89)
IsHeader(line) ==
    LET hashes == SkipIn(line, 1, {"#"}) - 1
    IN  hashes \in 1..3 /\ At(line, hashes + 1) \in PyWhitespace /\ Len(line) >= hashes + 2

\* content.split('\n'), the empty content being no line at all
RECURSIVE SplitLines(_)
SplitLines(chars) ==
    IF chars = <<>> THEN <<>>
    ELSE LET line == SubSeq(chars, 1, LineEnd(chars) - 1)
         IN  << Line(Join(line), Len(line), IsHeader(line)) >>
             \o SplitLines(SubSeq(chars, LineEnd(chars) + 1, Len(chars)))

\* a field of an action: its string, or PyNone for a value that is no string
FieldOf(key, value) ==
    IF value.k # "str" THEN IF key = "content" THEN <<>> ELSE PyNone
    ELSE IF key = "content" THEN SplitLines(value.v)
    ELSE Join(value.v)

\* an item of the batch that is no object has no get(): process() raises on
\* it as on a type that is no string
NotARecord == [type |-> PyNone]

ActionRecord(item) ==
    IF item.k # "obj" THEN NotARecord
    ELSE [key \in {item.m[i].key : i \in 1..Len(item.m)} |->
             FieldOf(key, DictGet(item.m, key))]

\* response_data.get('actions', []), item by item
ActionsOf(payload) ==
    IF ~IsDictWith(payload, "actions") THEN <<>>
    ELSE LET actions == DictGet(payload.m, "actions")
         IN  CASE actions.k = "arr" -> [i \in 1..Len(actions.v) |-> ActionRecord(actions.v[i])]
               [] actions.k = "str" -> [i \in 1..Len(actions.v) |-> NotARecord]
               [] actions.k = "obj" -> [i \in 1..Len(actions.m) |-> NotARecord]
               [] OTHER             -> IF Truthy(actions) THEN << NotARecord >> ELSE <<>>

(***************************************************************************)
(* The same program when the backend's answer is text: run_ollama hands    *)
(* process() an exit status and the text, and parse_response turns the     *)
(* text into the payload (agent.py:1407-1423).                             *)
(***************************************************************************)

\* a batch of one create: {"actions":[{"type":"create","target":"a.py","content":"x"}]}
TextCreate ==
    <<"{", "\"", "a", "c", "t", "i", "o", "n", "s", "\"", ":", "[", "{",
      "\"", "t", "y", "p", "e", "\"", ":", "\"", "c", "r", "e", "a", "t",
      "e", "\"", ",", "\"", "t", "a", "r", "g", "e", "t", "\"", ":", "\"",
      "a", ".", "p", "y", "\"", ",", "\"", "c", "o", "n", "t", "e", "n",
      "t", "\"", ":", "\"", "x", "\"", "}", "]", "}">>

\* a batch of one run: {"actions":[{"type":"run","target":"make"}]}
TextRun ==
    <<"{", "\"", "a", "c", "t", "i", "o", "n", "s", "\"", ":", "[", "{",
      "\"", "t", "y", "p", "e", "\"", ":", "\"", "r", "u", "n", "\"", ",",
      "\"", "t", "a", "r", "g", "e", "t", "\"", ":", "\"", "m", "a", "k",
      "e", "\"", "}", "]", "}">>

\* an empty batch: {"actions":[]}
TextNoActions ==
    <<"{", "\"", "a", "c", "t", "i", "o", "n", "s", "\"", ":", "[", "]", "}">>

\* a raw newline inside the content: {"actions":[{"type":"message","content":"x<NL>y"}]}
TextRawNewline ==
    <<"{", "\"", "a", "c", "t", "i", "o", "n", "s", "\"", ":", "[", "{",
      "\"", "t", "y", "p", "e", "\"", ":", "\"", "m", "e", "s", "s", "a",
      "g", "e", "\"", ",", "\"", "c", "o", "n", "t", "e", "n", "t", "\"",
      ":", "\"", "x", "\n", "y", "\"", "}", "]", "}">>

\* the escape \n, then a raw newline, inside the content: {"actions":[{"type":"message","content":"x\ny<NL>z"}]}
TextEscapeThenRaw ==
    <<"{", "\"", "a", "c", "t", "i", "o", "n", "s", "\"", ":", "[", "{",
      "\"", "t", "y", "p", "e", "\"", ":", "\"", "m", "e", "s", "s", "a",
      "g", "e", "\"", ",", "\"", "c", "o", "n", "t", "e", "n", "t", "\"",
      ":", "\"", "x", "\\", "n", "y", "\n", "z", "\"", "}", "]", "}">>

\* a comma before the closing bracket: {"actions":[{"type":"message","content":"x"},]}
TextTrailingComma ==
    <<"{", "\"", "a", "c", "t", "i", "o", "n", "s", "\"", ":", "[", "{",
      "\"", "t", "y", "p", "e", "\"", ":", "\"", "m", "e", "s", "s", "a",
      "g", "e", "\"", ",", "\"", "c", "o", "n", "t", "e", "n", "t", "\"",
      ":", "\"", "x", "\"", "}", ",", "]", "}">>

\* the escape \n inside the content, and a comma before the closing bracket: {"actions":[{"type":"message","content":"x\ny"},]}
TextEscapeAndComma ==
    <<"{", "\"", "a", "c", "t", "i", "o", "n", "s", "\"", ":", "[", "{",
      "\"", "t", "y", "p", "e", "\"", ":", "\"", "m", "e", "s", "s", "a",
      "g", "e", "\"", ",", "\"", "c", "o", "n", "t", "e", "n", "t", "\"",
      ":", "\"", "x", "\\", "n", "y", "\"", "}", ",", "]", "}">>

\* one action-shaped record instead of a batch: {"action":"create_file","file_path":"a.py","content":"x"}
TextSingleRecord ==
    <<"{", "\"", "a", "c", "t", "i", "o", "n", "\"", ":", "\"", "c", "r",
      "e", "a", "t", "e", "_", "f", "i", "l", "e", "\"", ",", "\"", "f",
      "i", "l", "e", "_", "p", "a", "t", "h", "\"", ":", "\"", "a", ".",
      "p", "y", "\"", ",", "\"", "c", "o", "n", "t", "e", "n", "t", "\"",
      ":", "\"", "x", "\"", "}">>

\* two objects one after the other: {"action":"run_command","target":"make"}{"x":"y"}
TextTwoObjects ==
    <<"{", "\"", "a", "c", "t", "i", "o", "n", "\"", ":", "\"", "r", "u",
      "n", "_", "c", "o", "m", "m", "a", "n", "d", "\"", ",", "\"", "t",
      "a", "r", "g", "e", "t", "\"", ":", "\"", "m", "a", "k", "e", "\"",
      "}", "{", "\"", "x", "\"", ":", "\"", "y", "\"", "}">>

\* a content with braces, inside the batch: {"actions":[{"type":"message","content":"{a}b"}]}
TextBraceInContent ==
    <<"{", "\"", "a", "c", "t", "i", "o", "n", "s", "\"", ":", "[", "{",
      "\"", "t", "y", "p", "e", "\"", ":", "\"", "m", "e", "s", "s", "a",
      "g", "e", "\"", ",", "\"", "c", "o", "n", "t", "e", "n", "t", "\"",
      ":", "\"", "{", "a", "}", "b", "\"", "}", "]", "}">>

\* a content with braces, behind an empty batch: {"actions":[],"content":"{a}b"}
TextContentBehind ==
    <<"{", "\"", "a", "c", "t", "i", "o", "n", "s", "\"", ":", "[", "]",
      ",", "\"", "c", "o", "n", "t", "e", "n", "t", "\"", ":", "\"", "{",
      "a", "}", "b", "\"", "}">>

\* the batch of one run in a code fence (~ is the backquote): ~~~json<NL>{"actions":[{"type":"run","target":"make"}]}<NL>~~~
TextFenced ==
    <<"~", "~", "~", "j", "s", "o", "n", "\n", "{", "\"", "a", "c", "t",
      "i", "o", "n", "s", "\"", ":", "[", "{", "\"", "t", "y", "p", "e",
      "\"", ":", "\"", "r", "u", "n", "\"", ",", "\"", "t", "a", "r", "g",
      "e", "t", "\"", ":", "\"", "m", "a", "k", "e", "\"", "}", "]", "}",
      "\n", "~", "~", "~">>

\* a quote that is not escaped inside the content: {"actions":[{"type":"message","content":"a"b"}]}
TextInnerQuote ==
    <<"{", "\"", "a", "c", "t", "i", "o", "n", "s", "\"", ":", "[", "{",
      "\"", "t", "y", "p", "e", "\"", ":", "\"", "m", "e", "s", "s", "a",
      "g", "e", "\"", ",", "\"", "c", "o", "n", "t", "e", "n", "t", "\"",
      ":", "\"", "a", "\"", "b", "\"", "}", "]", "}">>

\* a literal where the batch should be: {"actions":true}
TextActionsTrue ==
    <<"{", "\"", "a", "c", "t", "i", "o", "n", "s", "\"", ":", "t", "r",
      "u", "e", "}">>

\* an answer without JSON: hello
TextProse ==
    <<"h", "e", "l", "l", "o">>

\* the text cut off behind any of its characters
Prefixes(text) == {SubSeq(text, 1, k) : k \in 0..Len(text)}

Texts ==
    { TextCreate, TextRun, TextNoActions, TextRawNewline, TextEscapeThenRaw,
      TextTrailingComma, TextEscapeAndComma, TextSingleRecord, TextTwoObjects,
      TextFenced, TextInnerQuote, TextActionsTrue, TextProse }
    \cup Prefixes(TextBraceInContent) \cup Prefixes(TextContentBehind)

\* what a debug agent's backend answers
NestedTexts == { TextCreate, TextRun, TextProse }

\* what process() has in hand at agent.py:1421: the exit status and the text
\* of the backend, whether parse_response was called, the strategy that
\* returned and its payload.  HAS_JSON5 says whether the json5 package is
\* installed (agent.py:18-23).
Extracted(returncode, stdout, HAS_JSON5, response_data) ==
    [returncode |-> returncode,
     parsed |-> response_data.returned /\ Truthy(response_data.value),
     actions |-> ActionsOf(response_data.value),
     stdout |-> stdout, json5 |-> HAS_JSON5, invoked |-> TRUE,
     strategy |-> response_data.strategy, payload |-> response_data.value]

NotExtracted(returncode, stdout, HAS_JSON5) ==
    [returncode |-> returncode, parsed |-> FALSE, actions |-> <<>>,
     stdout |-> stdout, json5 |-> HAS_JSON5, invoked |-> FALSE,
     strategy |-> "none", payload |-> JObj(<<>>)]

\* process() with the extractor called before the exit status is looked at
Answer_ExtractsFirst(returncode, stdout, HAS_JSON5) ==
    Extracted(returncode, stdout, HAS_JSON5, parse_response(stdout, HAS_JSON5))

Answer(returncode, stdout, HAS_JSON5) ==
    IF returncode # 0 THEN NotExtracted(returncode, stdout, HAS_JSON5)
    ELSE Extracted(returncode, stdout, HAS_JSON5, parse_response(stdout, HAS_JSON5))

\* the answers whose exit status is one of returncodes
AnswersOver(returncodes, texts) ==
    { Answer(rc, text, HAS_JSON5) : rc \in returncodes, text \in texts, HAS_JSON5 \in BOOLEAN }

TextResponsesFor(depth) ==
    IF depth = 1
    THEN AnswersOver({0}, Texts) \cup AnswersOver({1}, {<<>>, TextCreate})
    ELSE AnswersOver({0}, NestedTexts) \cup AnswersOver({1}, {<<>>})

InitExtract ==
    /\ fs = [p \in Paths |-> NoFile]
    /\ \E m \in MODES : agents = << Agent(m, fs, 0) >>
    /\ stack = <<>>
    /\ outcome = [kind |-> "none", value |-> <<>>]
    /\ session = NoSession
    /\ requests = 0
    /\ spawned = {}
    /\ failing \in SUBSET Runnable
    /\ rechecks = {}
    /\ received = NoResponse

ProcessRespondText == ProcessRespondFrom(TextResponsesFor(Top.agent))

NextExtract ==
    \/ MainProcessOnce
    \/ ProcessRespondText
    \/ ExecuteAction
    \/ FinishBatch
    \/ EnterRepair
    \/ IterativeDebugIterate
    \/ IterativeDebugAfterNested

SpecExtract == InitExtract /\ [][NextExtract]_vars

(***************************************************************************)
(* Vocabulary of the claims.                                               *)
(***************************************************************************)
SessionEnded == session.state \in {"Resolved", "Exhausted", "Stalled", "Raised"}

\* the command would exit non-zero (or be blocked) if it were executed now
FailsNow(c) == c \in failing \/ is_dangerous_command(c)

\* index of the step's action and the results it appended
ExecutingAction == Running("process") /\ Top.pos = "exec" /\ Top.i <= Len(Top.actions)
CurrentAction == Top.actions[Top.i]
CurrentKind == normalize_action_type(Lower(Get(CurrentAction, "type")))
CurrentTarget ==
    IF Top.progress THEN ResolveTargetProgress(CurrentAction) ELSE ResolveTarget(CurrentAction)
Executed == stack' # stack /\ Len(stack') = Len(stack) /\ stack'[Len(stack)].i = Top.i + 1
NewResults ==
    SubSeq(stack'[Len(stack)].results, Len(Top.results) + 1, Len(stack'[Len(stack)].results))

\* C1: a repair session of _iterative_debug whose commands never pass a
\* re-execution ends Exhausted after exactly max_iterations nested passes.
C1_ExhaustedAfterBudget ==
    ( /\ session.fn = "iterative_debug"
      /\ SessionEnded
      /\ \A c \in session.commands : FailsNow(c)
      /\ \A r \in rechecks : r.returncode # 0 )
    => (session.state = "Exhausted" /\ session.iteration = session.max_iterations)

\* C2: a repair session of _iterative_debug whose first nested pass makes
\* every failed command pass ends Resolved with the iteration counter at 1.
C2_ResolvedAfterOnePass ==
    ( /\ session.fn = "iterative_debug"
      /\ SessionEnded
      /\ session.iteration = 1
      /\ \A c \in session.commands : ~FailsNow(c) )
    => session.state = "Resolved"

\* C3: a repair session (either loop) reports its commands fixed only after
\* it re-executed each of them after the nested pass and saw exit code 0.
C3_SuccessOnlyByReexecution ==
    session.state = "Resolved"
    => \A c \in session.commands : [command |-> c, returncode |-> 0] \in rechecks

\* C4: when a pass of _iterative_debug is over, every command of the original
\* failed set has been re-executed after that pass's nested invocation.
C4_EveryCommandReexecuted ==
    ( /\ session.fn = "iterative_debug"
      /\ session.iteration >= 1
      /\ ~Running("process")
      /\ (Running("iterative_debug") => Top.pos = "loop") )
    => \A c \in session.commands : \E r \in rechecks : r.command = c

\* C5: a session of _iterative_debug whose pass added or removed no file and
\* left every command failing ends Stalled, below its iteration budget.
C5_StalledWithoutProgress ==
    ( /\ session.fn = "iterative_debug"
      /\ SessionEnded
      /\ DOMAIN load_project_context(fs) = session.files
      /\ \A c \in session.commands : FailsNow(c) )
    => (session.state = "Stalled" /\ session.iteration < session.max_iterations)

\* C8: a repair session of _iterative_debug ends by returning a summary that
\* reports the state reached and the number of passes performed; it never
\* raises.
C8_ReturnsFaithfulSummary ==
    (session.fn = "iterative_debug" /\ SessionEnded)
    => ( /\ outcome.kind = "returned"
         /\ session.reported_state = session.state
         /\ session.reported_iterations = session.iteration )
\* C6: repair is nested at most one deep: the call stack never holds two
\* repair loops, whatever Run failures a nested pass produces.
C6_RepairDepthAtMostOne ==
    Cardinality({k \in 1..Len(stack) :
                    stack[k].fn \in {"iterative_debug", "debug_command"}}) <= 1

\* a nested pass of a repair loop has finished a batch in which a Run failed
C6_NestedPassWithFailedRun ==
    /\ Len(stack) >= 2
    /\ stack[Len(stack) - 1].fn \in {"iterative_debug", "debug_command"}
    /\ Running("process")
    /\ Top.pos = "exec"
    /\ Top.i > Len(Top.actions)
    /\ Top.failed_commands # <<>>

\* C7: the repair loop is entered only from a batch of an agent in craft or
\* code mode in which a Run action reported a failure, in either executor.
C7_RepairOnlyAfterFailedRun ==
    /\ \A k \in 1..Len(stack) :
          stack[k].fn = "iterative_debug"
          => /\ k > 1
             /\ stack[k - 1].fn = "process"
             /\ agents[stack[k - 1].agent].mode \in {"craft", "code"}
             /\ \E j \in 1..Len(stack[k - 1].results) :
                   stack[k - 1].results[j].tag = "run_failed"
    /\ session.fn = "iterative_debug" => agents[1].mode \in {"craft", "code"}

\* the repair loop runs, entered from execute_actions_with_progress
C7_RepairEnteredFromProgress ==
    /\ Running("iterative_debug")
    /\ stack[1].fn = "process"
    /\ stack[1].progress

\* C9: a Create action whose target exists reports a failure and leaves the
\* file's content as it was, whatever the content and the executor.
C9_CreateOnExistingFails ==
    [][ ( /\ ExecutingAction
          /\ CurrentKind = "create"
          /\ CurrentTarget # ""
          /\ Exists(fs, CurrentTarget)
          /\ Executed )
        => ( /\ fs'[CurrentTarget] = fs[CurrentTarget]
             /\ \A k \in 1..Len(NewResults) : ~Succeeded(NewResults[k]) ) ]_vars

\* C10: an Edit action whose target does not exist reports a failure and
\* leaves the set of files, backups included, as it was.
C10_EditOnMissingFails ==
    [][ ( /\ ExecutingAction
          /\ CurrentKind = "edit"
          /\ CurrentTarget # ""
          /\ ~Exists(fs, CurrentTarget)
          /\ Executed )
        => ( /\ fs' = fs
             /\ NewResults # <<>>
             /\ \A k \in 1..Len(NewResults) : ~Succeeded(NewResults[k]) ) ]_vars

\* an Edit of a missing file has just been reported and no file exists
C10_EditMissingReported ==
    /\ Running("process")
    /\ Top.results # <<>>
    /\ Top.results[Len(Top.results)].tag = "edit_missing"
    /\ \A p \in Paths : fs[p] = NoFile

\* the step's action reported the given result
Reported(tag) == \E k \in 1..Len(NewResults) : NewResults[k].tag = tag

\* C11: a Create action on a target that does not exist and that reports
\* success leaves the target holding exactly the action's content and
\* creates no backup file, whatever the content length and the executor.
C11_CreateWritesContent ==
    [][ ( /\ ExecutingAction
          /\ CurrentKind = "create"
          /\ CurrentTarget # ""
          /\ ~Exists(fs, CurrentTarget)
          /\ Executed
          /\ Reported("created") )
        => ( /\ fs'[CurrentTarget] = GetContent(CurrentAction)
             /\ fs'[BackupPath(CurrentTarget)] = fs[BackupPath(CurrentTarget)] ) ]_vars

\* C12: an Edit action that reports success leaves in target + ".backup"
\* the content the target had when the action started.
C12_EditKeepsBackup ==
    [][ ( /\ ExecutingAction
          /\ CurrentKind = "edit"
          /\ CurrentTarget # ""
          /\ Executed
          /\ Reported("edited") )
        => fs'[BackupPath(CurrentTarget)] = fs[CurrentTarget] ]_vars

\* the lines the step's action read at its prompts
NewAnswers ==
    SubSeq(stack'[Len(stack)].answers, Len(Top.answers) + 1, Len(stack'[Len(stack)].answers))

\* a Delete action whose target exists has been executed
DeleteExecuted ==
    /\ ExecutingAction
    /\ CurrentKind = "delete"
    /\ CurrentTarget # ""
    /\ Exists(fs, CurrentTarget)
    /\ Executed

\* C13 as stated: a Delete action removes its target only when the answer
\* to the prompt is the literal yes; after every other answer the outcome is
\* the cancelled one, the file is present and unchanged and no backup is
\* created.
C13_DeleteOnlyOnLiteralYes ==
    [][ (DeleteExecuted /\ NewAnswers # << "yes" >>)
        => (Reported("delete_cancelled") /\ fs' = fs) ]_vars

\* C13 as amended: the same with the answer compared after strip() and
\* lower().
C13_DeleteOnlyOnYes ==
    [][ (DeleteExecuted /\ (\A k \in 1..Len(NewAnswers) : Strip(Lower(NewAnswers[k])) # "yes"))
        => (Reported("delete_cancelled") /\ fs' = fs) ]_vars

\* a Delete has been cancelled after the answer y, and the file is in place
C13_DeleteCancelled ==
    /\ Running("process")
    /\ Top.results # <<>>
    /\ Top.results[Len(Top.results)].tag = "delete_cancelled"
    /\ Top.answers # <<>>
    /\ Top.answers[Len(Top.answers)] = "y"
    /\ fs["a.py"] = ContentOld
    /\ fs["a.py.backup"] = NoFile

\* the command begins with a destructive verb (recursive delete, disk
\* format, shutdown, reboot), with or without the prefix "sudo "
Destructive(command) ==
    LET c    == Chars(Strip(Lower(command)))
        sudo == <<"s","u","d","o"," ">>
        verb == IF StartsWith(c, sudo) THEN SubSeq(c, Len(sudo) + 1, Len(c)) ELSE c
    IN  \E v \in {"rm", "format", "mkfs", "shutdown", "reboot"} : StartsWith(verb, Chars(v))

\* C14: no process is ever started for a Run target that begins with a
\* destructive command, with or without a leading sudo, on any path that
\* executes commands.
C14_DestructiveNeverStarted == \A c \in spawned : ~Destructive(c)

\* C15: every Run action is executed with a timeout, so no batch is left
\* waiting for a process that never exits.
C15_RunProducesOutcome ==
    \A k \in 1..Len(stack) : stack[k].fn = "process" => stack[k].pos # "waiting"

\* the outermost agent runs in a mode restricted to one extension
Restricted == agents[1].mode \in {"design", "test"}
Extension == RequiredExtension(agents[1].mode)

\* kind and target of a raw action as the mode filter resolves them
KindOf(action) == normalize_action_type(Lower(Get(action, "type")))
IsFileAction(action) == KindOf(action) \in {"create", "edit"}
HasExtension(action) == EndsWith(ResolveTarget(action), Extension)

\* the step's action was handed to _action_create or _action_edit
ReachedFileExecutor ==
    \E k \in 1..Len(NewResults) :
        NewResults[k].tag \in {"created", "create_exists", "create_failed", "edited",
                               "edit_missing", "edit_unreadable", "edit_failed"}

\* the batch process() hands to the executor holds exactly the Create and
\* Edit actions of the answer whose target has the extension
KeepsFileActions ==
    (Restricted /\ Len(stack) = 1 /\ Running("process") /\ Top.pos = "exec")
    => SelectSeq(Top.actions, IsFileAction)
         = SelectSeq(received.actions, LAMBDA a : IsFileAction(a) /\ HasExtension(a))

\* C16: in design and test mode every Create or Edit action whose target
\* lacks the mode's extension is rejected and never executed, those whose
\* target has it are kept and executed, and process() writes no file
\* without the extension.
C16_RestrictedModeWritesOnlyExtension ==
    [][ /\ KeepsFileActions'
        /\ (Restricted /\ ExecutingAction /\ IsFileAction(CurrentAction) /\ Executed)
             => (ReachedFileExecutor <=> HasExtension(CurrentAction))
        /\ Restricted
             => \A p \in Paths : fs'[p] # fs[p] => EndsWith(p, Extension) ]_vars

\* process() returned the error of a batch the mode filter emptied
AllFilteredOut ==
    /\ outcome.kind = "returned"
    /\ outcome.value # <<>>
    /\ outcome.value[1].tag = "all_filtered"

IsMessage(action) == KindOf(action) = "message"

\* the Message actions of the answer all reach the executor
MessagesPass ==
    /\ (Restricted /\ Len(stack) = 1 /\ Running("process") /\ Top.pos = "exec")
        => SelectSeq(Top.actions, IsMessage) = SelectSeq(received.actions, IsMessage)
    /\ (Restricted /\ AllFilteredOut)
        => SelectSeq(received.actions, IsMessage) = <<>>

\* C17: in design and test mode a Message action passes the mode filter and
\* is emitted, under each accepted spelling of its kind and whatever its
\* target.
C17_MessageAlwaysPasses ==
    [][ /\ MessagesPass'
        /\ (Restricted /\ ExecutingAction /\ IsMessage(CurrentAction) /\ Executed)
             => Reported("message") ]_vars

\* C18: when the mode filter leaves no action, process() returns at once
\* with an error that names the target of every rejected action; no action
\* is executed, no file changes, no process is started and the
\* conversation history stays as it was.
C18_AllFilteredIsTerminalError ==
    [][ ( /\ Restricted
          /\ Running("process") /\ Top.pos = "start"
          /\ received'.returncode = 0 /\ received'.parsed
          /\ received'.actions # <<>>
          /\ \A k \in 1..Len(received'.actions) :
                ~PassesModeFilter(agents[1].mode, received'.actions[k]) )
        => ( /\ stack' = <<>>
             /\ AllFilteredOut'
             /\ \A k \in 1..Len(received'.actions) :
                   \E j \in 1..Len(outcome'.value[1].arg) :
                       outcome'.value[1].arg[j].target
                           = ResolveTarget(received'.actions[k])
             /\ fs' = fs
             /\ spawned' = spawned
             /\ agents' = agents ) ]_vars

\* a batch of two actions with different targets has been filtered out
C18_TwoTargetsRejected ==
    /\ Restricted
    /\ AllFilteredOut
    /\ Len(received.actions) = 2
    /\ ResolveTarget(received.actions[1]) # ResolveTarget(received.actions[2])
    /\ stack = <<>>
    /\ agents[1].conversation_history = 0

\* C19: an action of kind Create, Edit, Delete or Run whose resolved target
\* is empty never reaches its executor: it is rejected with the diagnostic
\* that names the kind and the raw record, nothing else happens, and the
\* batch goes on.
C19_EmptyTargetRejected ==
    [][ ( /\ ExecutingAction
          /\ CurrentKind \in {"create", "edit", "delete", "run"}
          /\ CurrentTarget = ""
          /\ stack' # stack )
        => ( /\ Executed
             /\ NewResults = << R("target_missing", CurrentKind),
                                R("action_data", CurrentAction) >>
             /\ fs' = fs
             /\ spawned' = spawned ) ]_vars

\* C20: an action whose type is none of the five kinds after the synonym
\* mapping adds a rejection entry to the results and has no effect on the
\* files or the shell.
C20_UnknownKindRejected ==
    [][ ( /\ ExecutingAction
          /\ CurrentKind \notin {"create", "edit", "delete", "run", "message"}
          /\ Executed )
        => ( /\ Reported("unknown_type")
             /\ fs' = fs
             /\ spawned' = spawned ) ]_vars

\* the first non-empty of the five target fields, in the order the
\* contract gives them
FirstNonEmptyTarget(action) ==
    LET a == Get(action, "target")
        b == Get(action, "path")
        c == Get(action, "file_path")
        d == Get(action, "file")
        e == Get(action, "file_name")
    IN  Strip(IF a # "" THEN a ELSE IF b # "" THEN b ELSE IF c # "" THEN c
              ELSE IF d # "" THEN d ELSE e)

\* C21: whichever executor runs an action, the target it resolves is the
\* first non-empty of target, path, file_path, file, file_name.
C21_ExecutorResolvesFirstNonEmpty ==
    ExecutingAction => CurrentTarget = FirstNonEmptyTarget(CurrentAction)

\* the executor state at the step of the current action
BatchState ==
    [fs |-> fs, results |-> Top.results, failing |-> failing,
     failed_commands |-> Top.failed_commands, spawned |-> spawned,
     waiting |-> FALSE, answers |-> Top.answers]

\* C29: on an action whose content has at most 5000 characters,
\* execute_actions and execute_actions_with_progress produce the same
\* results, the same file system and the same failed-command list, in every
\* mode and from every file system.
C29_ExecutorsAgree ==
    ( ExecutingAction /\ ContentLen(GetContent(CurrentAction)) <= LargeContent )
    => \A inp \in InputsFor(CurrentKind) :
         LET mode  == agents[Top.agent].mode
             plain == ExecuteOne(mode, FALSE, BatchState, CurrentAction, inp)
             prog  == ExecuteOne(mode, TRUE, BatchState, CurrentAction, inp)
         IN  /\ plain.results = prog.results
             /\ plain.fs = prog.fs
             /\ plain.failed_commands = prog.failed_commands

\* C30: neither repair loop returns the 'Debug complete' summary for a
\* command of the deny-list.
C30_DenyListedNeverFixed ==
    session.reported_state = "Resolved"
    => \A c \in session.commands : ~is_dangerous_command(c)

\* C22: normalising an action type twice gives what normalising it once
\* gives, for every type string an executor meets, and the five canonical
\* kinds are left as they are.
C22_NormalizeIdempotent ==
    ( ExecutingAction /\ IsStr(Get(CurrentAction, "type")) )
    => LET t == Get(CurrentAction, "type")
       IN  /\ normalize_action_type(normalize_action_type(t)) = normalize_action_type(t)
           /\ \A k \in CanonicalKinds : normalize_action_type(k) = k

\* a type written in capitals and blanks was normalised to run, and the
\* command was executed
C22_SpelledRunExecuted ==
    /\ stack = <<>>
    /\ outcome.kind = "returned"
    /\ received.actions # <<>>
    /\ received.actions[1].type = " Exec "
    /\ outcome.value[1] = R("run_ok", CmdMake)

\* the batch of the process() call that is returning changed a file through
\* _action_create, _action_edit or _action_delete
BatchChangedFiles ==
    \E k \in 1..Len(Top.results) : Top.results[k].tag \in {"created", "edited", "deleted"}

\* C24: when process() returns after a batch in which a Create, Edit or
\* Delete changed a file, under whichever spelling of the type, the agent's
\* context snapshot has been reloaded from the files.
C24_ContextReloadedAfterChange ==
    [][ ( /\ Running("process")
          /\ Top.pos = "exec"
          /\ BatchChangedFiles
          /\ Len(stack') < Len(stack) )
        => agents'[Top.agent].project_context = load_project_context(fs) ]_vars

\* the list process() hands to the executor when the answer it just received
\* has one
ReceivedBatch == FilterActions(agents[Top.agent].mode, received'.actions)

\* C23: a batch a1..an that process() accepted reaches the executor as it
\* is, each executor step applies the next action of the list and appends
\* its results behind those of the earlier actions, and no action, whether
\* rejected or failed, keeps the later ones from being processed.
C23_BatchAppliedInOrder ==
    [][ /\ ( /\ Running("process") /\ Top.pos = "start" /\ stack' # stack
             /\ received'.returncode = 0 /\ received'.parsed
             /\ ReceivedBatch # <<>> )
           => ( /\ Len(stack') = Len(stack)
                /\ stack'[Len(stack)].pos = "exec"
                /\ stack'[Len(stack)].i = 1
                /\ stack'[Len(stack)].actions = ReceivedBatch )
        /\ ( ExecutingAction /\ stack' # stack )
           => ( /\ Executed
                /\ stack'[Len(stack)].actions = Top.actions
                /\ NewResults # <<>>
                /\ SubSeq(stack'[Len(stack)].results, 1, Len(Top.results)) = Top.results )
      ]_vars

\* the reasons for which parse_response returns None
NoPayload == {"no_json", "TypeError", "all_failed"}

\* process() takes the answer of the backend
TakingAnswer == Running("process") /\ Top.pos = "start" /\ stack' # stack

\* what the call of process() that is returning hands to its caller
HandedBack ==
    IF stack' = <<>> THEN outcome'.value ELSE stack'[Len(stack')].debug_result

\* C25: when the backend's exit status is not zero, or no strategy of the
\* extractor recovers a payload, process() returns one error entry and does
\* not raise; no action is executed, no file changes, no repair loop starts
\* and the conversation history stays as it was, and on a failing backend
\* parse_response is not called.
C25_FailureReturnsErrorOnly ==
    [][ ( /\ TakingAnswer
          /\ ( received'.returncode # 0 \/ received'.strategy \in NoPayload ) )
        => ( /\ outcome'.kind # "raised"
             /\ Len(stack') = Len(stack) - 1
             /\ \A k \in 1..Len(stack') : stack'[k].fn = stack[k].fn
             /\ stack' = <<>> => outcome'.kind = "returned"
             /\ HandedBack = << R(IF received'.returncode # 0 THEN "ollama_error"
                                  ELSE "parse_error", "") >>
             /\ fs' = fs
             /\ agents' = agents
             /\ spawned' = spawned
             /\ session' = session
             /\ failing' = failing
             /\ received'.returncode # 0 => ~received'.invoked ) ]_vars

\* the backend failed on an answer the extractor would have parsed, and
\* process() returned the backend's error with no file written
C25_BackendErrorReturned ==
    /\ stack = <<>>
    /\ outcome = [kind |-> "returned", value |-> << R("ollama_error", "") >>]
    /\ received.returncode # 0
    /\ received.stdout = TextCreate
    /\ \A p \in Paths : fs[p] = NoFile

\* the text parse_response hands to its strategies: the span of the answer
\* without its fence, <<>> when no span is found
SpanOf(response, span) ==
    IF span.start = 0 \/ span.end = 0 THEN <<>>
    ELSE SubSeq(response, span.start, span.end)
SpanText(text) == SpanOf(StripFence(text), JsonSpan(StripFence(text)))

\* parse_response was called on the answer and found a span
Extracting ==
    /\ "invoked" \in DOMAIN received
    /\ received.invoked
    /\ SpanText(received.stdout) # <<>>

\* the order of the strategies as the contract gives it
ClaimedOrder ==
    << "strict", "lenient", "sanitizer", "truncation_repair", "multi_object", "regex" >>

HasActionsList(value) ==
    IsDictWith(value, "actions") /\ DictGet(value.m, "actions").k = "arr"

YieldsList(tried) == tried.ok /\ HasActionsList(tried.val)

\* the first strategy of the contract's order that yields a payload with an
\* actions list, 0 when none does
FirstYielding(json_str, HAS_JSON5) ==
    IF \E k \in 1..Len(ClaimedOrder) :
           YieldsList(Attempt(json_str, ClaimedOrder[k], HAS_JSON5))
    THEN MinOf({k \in 1..Len(ClaimedOrder) :
                   YieldsList(Attempt(json_str, ClaimedOrder[k], HAS_JSON5))})
    ELSE 0

\* the answer process() received is what the k-th strategy of the contract's
\* order made of json_str, field names normalised or not
ReceivedFrom(json_str, k) ==
    IF k = 0 THEN received.strategy \in NoPayload
    ELSE /\ received.strategy = ClaimedOrder[k]
         /\ received.payload
              \in { Attempt(json_str, ClaimedOrder[k], received.json5).val,
                    Rename(Attempt(json_str, ClaimedOrder[k], received.json5).val) }

\* C26: parse_response tries strict parse, lenient parse, sanitizer,
\* truncation repair, multi-object scan and regex recovery in this order and
\* returns what the first strategy that yields a payload with an actions
\* list made of the text, or nothing when none does.
C26_FirstStrategyWithActionsList ==
    Extracting
    => ReceivedFrom(SpanText(received.stdout),
                    FirstYielding(SpanText(received.stdout), received.json5))

\* the text ends inside the string of a content field (the strings of the
\* texts hold no escaped quote, so the last quote is the opening one)
CutInsideContent(text) ==
    /\ InString(text)
    /\ Matches(text, RFind(text, <<Quote>>, Len(text) + 1) - Len(ContentKeyColon),
               ContentKeyColon)

\* json_str with the open string closed and one brace for every missing one
ClosedAndBraced(json_str) ==
    Append(json_str, Quote) \o [k \in 1..MissingBraces(json_str) |-> "}"]

\* C27: for an answer cut off inside the string of a content field, with
\* more '{' than '}', the truncation repair closes the string, appends one
\* '}' for every missing one, and the repaired text parses into a payload
\* with an actions list, which parse_response returns.
C27_TruncatedContentRepaired ==
    ( /\ "invoked" \in DOMAIN received
      /\ received.invoked
      /\ CutInsideContent(received.stdout)
      /\ MissingBraces(received.stdout) > 0 )
    => ( /\ SpanText(received.stdout) # <<>>
         /\ RepairTruncated(SpanText(received.stdout))
              = ClosedAndBraced(SpanText(received.stdout))
         /\ YieldsList(json_loads(RepairTruncated(SpanText(received.stdout))))
         /\ received.strategy = "truncation_repair"
         /\ HasActionsList(received.payload) )

\* one round of the scanner of the contract, with the states Normal,
\* InString and Escaped
ScannerRound(json_str, st) ==
    LET c == json_str[st.i]
        to(state, out) ==
            [i |-> st.i + 1, state |-> state, result |-> st.result \o out]
    IN  CASE st.state = "Normal" ->
               to(IF c = Quote THEN "InString" ELSE "Normal", <<c>>)
          [] st.state = "Escaped" -> to("InString", <<c>>)
          [] st.state = "InString" ->
               IF c = Backslash THEN to("Escaped", <<c>>)
               ELSE IF c = Quote THEN to("Normal", <<c>>)
               ELSE IF c \in {"\n", "\r", "\t"} THEN to("InString", EscapeControls(<<c>>))
               ELSE IF c \in ControlChars THEN to("InString", <<>>)
               ELSE to("InString", <<c>>)

\* what the contract says the sanitizer returns
Scanner(json_str) ==
    Rounds(ScannerRound, json_str, 1, Len(json_str),
           [i |-> 1, state |-> "Normal", result |-> <<>>]).result

\* the strategies behind which parse_response has called the sanitizer
SanitizerRan ==
    { "sanitizer", "lenient_sanitized", "content_newlines", "lenient_content_newlines",
      "multi_object", "regex", "all_failed" }

\* C28: _fix_common_json_issues returns its text with every raw newline,
\* carriage return and tab inside a string replaced by its escape, every
\* other control character inside a string dropped, and every character
\* outside strings and every valid escape inside strings as it was.
C28_SanitizerEscapesControlsOnly ==
    ( Extracting /\ received.strategy \in SanitizerRan )
    => _fix_common_json_issues(SpanText(received.stdout))
         = Scanner(SpanText(received.stdout))
====
